---- MODULE Spec2Model ----
(***************************************************************************)
(* A model of src/chatbot.py: the answer-resolution pipeline of the        *)
(* football chatbot (normalize, the superlative resolver get_top_entity,   *)
(* the scripted dialogue get_smalltalk, the structured matchers, the       *)
(* retrieval retrieve_context, the synthesizer generate_answer and the     *)
(* orchestrator chat).                                                     *)
(*                                                                         *)
(* Text is a sequence of characters.  A character is a one-symbol string;  *)
(* the non-ASCII characters of the source are written in ASCII:            *)
(*    "a'" "e'" "i'" "o'" "u'"     the precomposed letters a-acute ...     *)
(*    "n~" "c,"                    n-tilde and c-cedilla                   *)
(*    "A'" "N~"                    upper-case a-acute and n-tilde          *)
(*    "U+0301" "U+0303" "U+0327"   the combining acute, tilde and cedilla  *)
(* and, inside the literal replies only, "!" and "?" also stand for the    *)
(* inverted marks and "(notes)" for the musical-notes emoji.               *)
(* The literal parts of a formatted answer (an f-string of the source) are *)
(* kept as one symbol each; the interpolated values are spliced in between *)
(* them character by character.                                            *)
(***************************************************************************)
EXTENDS Integers, Sequences, FiniteSets, TLC

VARIABLES
    norm,       \* the normalize harness: input text, results of one and two passes
    db,         \* the external data store: one sequence of rows per table
    question,   \* req.question of the request in flight
    pc,         \* position of the request inside chat
    fi,         \* index in FUNCS of the matcher the loop of chat is at
    q,          \* chat's local q = normalize(req.question)
    response,   \* the ChatResponse returned, or NoResponse
    trace,      \* the stages chat has run so far, each with its outcome
    chunks,     \* chat's local chunks (result of retrieve_context)
    retr,       \* the retrieve_context harness
    top,        \* the get_top_entity harness
    small,      \* the get_smalltalk harness
    gen,        \* the generate_answer harness
    conc        \* requests served concurrently: the store and each request's frame

vars == <<norm, db, question, pc, fi, q, response, trace, chunks, retr, top,
          small, gen, conc>>

----------------------------------------------------------------------------
(* Bounds of the model *)

\* longest text fed to normalize
MaxLen == 3

\* most rows of a corpus handed to retrieve_context on its own
MaxCorpus == 3

\* largest k handed to retrieve_context on its own
MaxK == 2

\* most rows of a stats table handed to get_top_entity on its own
MaxStats == 2

\* largest goals counter of those rows
MaxGoals == 2

\* most chunks handed to generate_answer on its own
MaxChunks == 2

----------------------------------------------------------------------------
(* Characters and text *)

RECURSIVE Concat(_, _)
\* "".join(parts[i:]) for a sequence of texts (1-based i)
Concat(parts, i) ==
    IF i > Len(parts) THEN <<>> ELSE parts[i] \o Concat(parts, i + 1)

\* str.lower() on one character
LowerChar(c) ==
    CASE c = "A" -> "a" [] c = "B" -> "b" [] c = "C" -> "c" [] c = "D" -> "d"
      [] c = "E" -> "e" [] c = "F" -> "f" [] c = "G" -> "g" [] c = "H" -> "h"
      [] c = "I" -> "i" [] c = "J" -> "j" [] c = "K" -> "k" [] c = "L" -> "l"
      [] c = "M" -> "m" [] c = "N" -> "n" [] c = "O" -> "o" [] c = "P" -> "p"
      [] c = "Q" -> "q" [] c = "R" -> "r" [] c = "S" -> "s" [] c = "T" -> "t"
      [] c = "U" -> "u" [] c = "V" -> "v" [] c = "W" -> "w" [] c = "X" -> "x"
      [] c = "Y" -> "y" [] c = "Z" -> "z"
      [] c = "A'" -> "a'" [] c = "E'" -> "e'" [] c = "I'" -> "i'"
      [] c = "O'" -> "o'" [] c = "U'" -> "u'" [] c = "N~" -> "n~"
      [] OTHER -> c

\* str.lower()
Lower(s) == [i \in 1..Len(s) |-> LowerChar(s[i])]

\* unicodedata.normalize("NFD", .) on one character: canonical decomposition
DecomposeChar(c) ==
    CASE c = "a'" -> <<"a", "U+0301">> [] c = "e'" -> <<"e", "U+0301">>
      [] c = "i'" -> <<"i", "U+0301">> [] c = "o'" -> <<"o", "U+0301">>
      [] c = "u'" -> <<"u", "U+0301">> [] c = "n~" -> <<"n", "U+0303">>
      [] c = "A'" -> <<"A", "U+0301">> [] c = "E'" -> <<"E", "U+0301">>
      [] c = "I'" -> <<"I", "U+0301">> [] c = "O'" -> <<"O", "U+0301">>
      [] c = "U'" -> <<"U", "U+0301">> [] c = "N~" -> <<"N", "U+0303">>
      [] c = "c," -> <<"c", "U+0327">>
      [] OTHER -> <<c>>

\* unicodedata.normalize("NFD", s)
NFD(s) == Concat([i \in 1..Len(s) |-> DecomposeChar(s[i])], 1)

\* unicodedata.category(c) == "Mn": the combining marks
IsMn(c) == c \in {"U+0301", "U+0303", "U+0327"}

\* the characters str.strip() removes
IsSpace(c) == c \in {" ", "\n", "\t"}

\* str.strip(): drop leading and trailing whitespace
Strip(s) ==
    LET idx == {i \in 1..Len(s) : ~IsSpace(s[i])}
        Min(S) == CHOOSE x \in S : \A y \in S : x <= y
        Max(S) == CHOOSE x \in S : \A y \in S : x >= y
    IN  IF idx = {} THEN <<>> ELSE SubSeq(s, Min(idx), Max(idx))

\* "".join(c for c in s if category(c) != "Mn")
DropMarks(s) == SelectSeq(s, LAMBDA c : ~IsMn(c))

\* a plausible slip: trimming before the marks are dropped
normalize_stripFirst(text) == DropMarks(Strip(NFD(Lower(text))))

\* normalize(text), chatbot.py:13-17
normalize(text) == Strip(DropMarks(NFD(Lower(text))))

\* Python's `t in s` on strings
Contains(s, t) ==
    \E i \in 0..(Len(s) - Len(t)) : SubSeq(s, i + 1, i + Len(t)) = t

----------------------------------------------------------------------------
(* Results of a stage: None, a string, or an exception raised *)

None == [kind |-> "none", text |-> <<>>]
Str(t) == [kind |-> "str", text |-> t]
Raised == [kind |-> "raise", text |-> <<>>]

\* Python truthiness of an `str | None` value: `if answer:`
Truthy(r) == r.kind = "str" /\ r.text # <<>>

----------------------------------------------------------------------------
(* The external data store (supabase): tables of rows *)

\* the columns of the stats table: player_id and the counters STAT_MAP names
StatsCounters ==
    {"games_played", "goals", "assists", "yellow_card", "red_card",
     "minutes_played", "clean_sheet", "saves", "second_yellow_card",
     "fouls_commited", "fouls_suffered", "offsides", "shots", "passes",
     "long_balls", "duels", "blocked_shots", "interceptions", "last_man",
     "tackles", "recoveries", "clearances", "penalties", "penalties_missed",
     "penalties_saved", "penalties_commited", "penalties_suffered"}

\* the columns of the referee_stats table
RefereeCounters ==
    {"wins", "draws", "defeats", "yellow_cards", "second_yellow_cards",
     "red_cards", "penalties", "penalties_against"}

\* the columns each table has, as the queries of the source name them
TableColumns(table) ==
    CASE table = "stats" -> {"player_id"} \cup StatsCounters
      [] table = "referee_stats" -> {"referee_id"} \cup RefereeCounters
      [] table = "stadiums" -> {"id", "name", "city", "capacity", "year_construction"}
      [] table = "players" -> {"id", "name", "nationality", "position",
                               "jersey_number", "height", "weight", "team_id"}
      [] table = "teams" -> {"id", "name", "city", "province", "founded_year",
                             "stadium_id"}
      [] table = "information_team" -> {"id", "name", "city", "province",
                                        "president", "founded_year", "stadium"}
      [] table = "referees" -> {"id", "name", "nationality", "debut"}
      [] table = "competitions" -> {"id", "name", "season", "type", "gender",
                                    "active"}
      [] table = "document_embeddings" -> {"id", "source_table", "source_id",
                                           "content", "embedding"}

\* supabase.table(t).select(cols): the store rejects a column the table lacks
SelectFails(table, cols) == ~(cols \subseteq TableColumns(table))

\* .eq(column, value): the rows with that value, in table order
Eq(rows, column, value) == SelectSeq(rows, LAMBDA r : r[column] = value)

\* a plausible slip: the order ascending
OrderDescLimit1_ascending(rows, column) ==
    IF rows = <<>> THEN {<<>>}
    ELSE {<<rows[i]>> : i \in {j \in 1..Len(rows) :
                                 \A k \in 1..Len(rows) : rows[j][column] <= rows[k][column]}}

\* .order(column, desc=True).limit(1): the possible results.  The order among
\* rows with equal values is the store's choice.
OrderDescLimit1(rows, column) ==
    IF rows = <<>> THEN {<<>>}
    ELSE {<<rows[i]>> : i \in {j \in 1..Len(rows) :
                                 \A k \in 1..Len(rows) : rows[k][column] <= rows[j][column]}}

----------------------------------------------------------------------------
(* The superlative resolver *)

\* the placeholder name of chatbot.py:789, 817, 836, 869, 881
Desconocido == <<"d", "e", "s", "c", "o", "n", "o", "c", "i", "d", "o">>

\* STAT_MAP, chatbot.py:103-146, in insertion order
STAT_MAP == <<
    [keyword |-> <<"p", "a", "r", "t", "i", "d", "o", "s">>,
     table |-> "stats", column |-> "games_played", label |-> <<"partidos jugados">>],
    [keyword |-> <<"g", "o", "l", "e", "s">>,
     table |-> "stats", column |-> "goals", label |-> <<"goles">>],
    [keyword |-> <<"a", "s", "i", "s", "t", "e", "n", "c", "i", "a", "s">>,
     table |-> "stats", column |-> "assists", label |-> <<"asistencias">>],
    [keyword |-> <<"t", "a", "r", "j", "e", "t", "a", "s", " ", "a", "m", "a", "r", "i", "l", "l", "a", "s">>,
     table |-> "stats", column |-> "yellow_card", label |-> <<"tarjetas amarillas">>],
    [keyword |-> <<"t", "a", "r", "j", "e", "t", "a", "s", " ", "r", "o", "j", "a", "s">>,
     table |-> "stats", column |-> "red_card", label |-> <<"tarjetas rojas">>],
    [keyword |-> <<"m", "i", "n", "u", "t", "o", "s">>,
     table |-> "stats", column |-> "minutes_played", label |-> <<"minutos jugados">>],
    [keyword |-> <<"p", "o", "r", "t", "e", "r", "i'", "a", "s", " ", "a", " ", "c", "e", "r", "o">>,
     table |-> "stats", column |-> "clean_sheet", label |-> <<"porteri'as a cero">>],
    [keyword |-> <<"p", "a", "r", "a", "d", "a", "s">>,
     table |-> "stats", column |-> "saves", label |-> <<"paradas">>],
    [keyword |-> <<"s", "e", "g", "u", "n", "d", "a", "s", " ", "a", "m", "a", "r", "i", "l", "l", "a", "s">>,
     table |-> "stats", column |-> "second_yellow_card", label |-> <<"segundas tarjetas amarillas">>],
    [keyword |-> <<"f", "a", "l", "t", "a", "s", " ", "c", "o", "m", "e", "t", "i", "d", "a", "s">>,
     table |-> "stats", column |-> "fouls_commited", label |-> <<"faltas cometidas">>],
    [keyword |-> <<"f", "a", "l", "t", "a", "s", " ", "r", "e", "c", "i", "b", "i", "d", "a", "s">>,
     table |-> "stats", column |-> "fouls_suffered", label |-> <<"faltas recibidas">>],
    [keyword |-> <<"f", "u", "e", "r", "a", " ", "d", "e", " ", "j", "u", "e", "g", "o">>,
     table |-> "stats", column |-> "offsides", label |-> <<"fueras de juego">>],
    [keyword |-> <<"t", "i", "r", "o", "s">>,
     table |-> "stats", column |-> "shots", label |-> <<"tiros">>],
    [keyword |-> <<"p", "a", "s", "e", "s">>,
     table |-> "stats", column |-> "passes", label |-> <<"pases">>],
    [keyword |-> <<"b", "a", "l", "o", "n", "e", "s", " ", "l", "a", "r", "g", "o", "s">>,
     table |-> "stats", column |-> "long_balls", label |-> <<"balones largos">>],
    [keyword |-> <<"d", "u", "e", "l", "o", "s">>,
     table |-> "stats", column |-> "duels", label |-> <<"duelos">>],
    [keyword |-> <<"t", "i", "r", "o", "s", " ", "b", "l", "o", "q", "u", "e", "a", "d", "o", "s">>,
     table |-> "stats", column |-> "blocked_shots", label |-> <<"tiros bloqueados">>],
    [keyword |-> <<"i", "n", "t", "e", "r", "c", "e", "p", "c", "i", "o", "n", "e", "s">>,
     table |-> "stats", column |-> "interceptions", label |-> <<"intercepciones">>],
    [keyword |-> <<"u'", "l", "t", "i", "m", "o", " ", "h", "o", "m", "b", "r", "e">>,
     table |-> "stats", column |-> "last_man", label |-> <<"u'ltimo hombre">>],
    [keyword |-> <<"e", "n", "t", "r", "a", "d", "a", "s">>,
     table |-> "stats", column |-> "tackles", label |-> <<"entradas">>],
    [keyword |-> <<"r", "e", "c", "u", "p", "e", "r", "a", "c", "i", "o", "n", "e", "s">>,
     table |-> "stats", column |-> "recoveries", label |-> <<"recuperaciones">>],
    [keyword |-> <<"d", "e", "s", "p", "e", "j", "e", "s">>,
     table |-> "stats", column |-> "clearances", label |-> <<"despejes">>],
    [keyword |-> <<"p", "e", "n", "a", "l", "t", "i", "s">>,
     table |-> "stats", column |-> "penalties", label |-> <<"penaltis">>],
    [keyword |-> <<"p", "e", "n", "a", "l", "t", "i", "s", " ", "f", "a", "l", "l", "a", "d", "o", "s">>,
     table |-> "stats", column |-> "penalties_missed", label |-> <<"penaltis fallados">>],
    [keyword |-> <<"p", "e", "n", "a", "l", "t", "i", "s", " ", "p", "a", "r", "a", "d", "o", "s">>,
     table |-> "stats", column |-> "penalties_saved", label |-> <<"penaltis parados">>],
    [keyword |-> <<"p", "e", "n", "a", "l", "t", "i", "s", " ", "c", "o", "m", "e", "t", "i", "d", "o", "s">>,
     table |-> "stats", column |-> "penalties_commited", label |-> <<"penaltis cometidos">>],
    [keyword |-> <<"p", "e", "n", "a", "l", "t", "i", "s", " ", "s", "u", "f", "r", "i", "d", "o", "s">>,
     table |-> "stats", column |-> "penalties_suffered", label |-> <<"penaltis sufridos">>],
    [keyword |-> <<"v", "i", "c", "t", "o", "r", "i", "a", "s", " ", "a'", "r", "b", "i", "t", "r", "o">>,
     table |-> "referee_stats", column |-> "wins", label |-> <<"victorias arbitradas">>],
    [keyword |-> <<"e", "m", "p", "a", "t", "e", "s", " ", "a'", "r", "b", "i", "t", "r", "o">>,
     table |-> "referee_stats", column |-> "draws", label |-> <<"empates arbitrados">>],
    [keyword |-> <<"d", "e", "r", "r", "o", "t", "a", "s", " ", "a'", "r", "b", "i", "t", "r", "o">>,
     table |-> "referee_stats", column |-> "defeats", label |-> <<"derrotas arbitradas">>],
    [keyword |-> <<"t", "a", "r", "j", "e", "t", "a", "s", " ", "a", "m", "a", "r", "i", "l", "l", "a", "s", " ", "a'", "r", "b", "i", "t", "r", "o">>,
     table |-> "referee_stats", column |-> "yellow_cards", label |-> <<"tarjetas amarillas mostradas">>],
    [keyword |-> <<"s", "e", "g", "u", "n", "d", "a", "s", " ", "a", "m", "a", "r", "i", "l", "l", "a", "s", " ", "a'", "r", "b", "i", "t", "r", "o">>,
     table |-> "referee_stats", column |-> "second_yellow_cards", label |-> <<"segundas amarillas mostradas">>],
    [keyword |-> <<"t", "a", "r", "j", "e", "t", "a", "s", " ", "r", "o", "j", "a", "s", " ", "a'", "r", "b", "i", "t", "r", "o">>,
     table |-> "referee_stats", column |-> "red_cards", label |-> <<"tarjetas rojas mostradas">>],
    [keyword |-> <<"p", "e", "n", "a", "l", "t", "i", "s", " ", "a'", "r", "b", "i", "t", "r", "o">>,
     table |-> "referee_stats", column |-> "penalties", label |-> <<"penaltis sen~alados">>],
    [keyword |-> <<"p", "e", "n", "a", "l", "t", "i", "s", " ", "e", "n", " ", "c", "o", "n", "t", "r", "a", " ", "a'", "r", "b", "i", "t", "r", "o">>,
     table |-> "referee_stats", column |-> "penalties_against", label |-> <<"penaltis en contra sen~alados">>],
    [keyword |-> <<"c", "a", "p", "a", "c", "i", "d", "a", "d", " ", "e", "s", "t", "a", "d", "i", "o">>,
     table |-> "stadiums", column |-> "capacity", label |-> <<"capacidad del estadio">>],
    [keyword |-> <<"a", "n~", "o", " ", "c", "o", "n", "s", "t", "r", "u", "c", "c", "i", "o'", "n", " ", "e", "s", "t", "a", "d", "i", "o">>,
     table |-> "stadiums", column |-> "year_construction", label |-> <<"an~o de construccio'n del estadio">>]
>>

\* the first entry of STAT_MAP whose keyword is in qq (0: none), chatbot.py:782-783
FirstKeyword(qq) ==
    LET hits == {i \in 1..Len(STAT_MAP) : Contains(qq, STAT_MAP[i].keyword)}
    IN  IF hits = {} THEN 0 ELSE CHOOSE i \in hits : \A j \in hits : i <= j

\* whether get_top_entity(quest) queries the store at all
TopQueries(quest) == FirstKeyword(Lower(quest)) # 0

\* the possible results of the query of chatbot.py:784 for this question
TopRows(quest, d) ==
    LET e == STAT_MAP[FirstKeyword(Lower(quest))]
    IN  OrderDescLimit1(d[e.table], e.column)

\* the sentence of chatbot.py:790
TopAnswer(e, topRow, player_name) ==
    <<"El jugador con ma's ">> \o e.label \o <<" es ">> \o player_name
        \o <<", con ", ToString(topRow[e.column]), " ">> \o e.label \o <<".">>

\* get_top_entity(question), chatbot.py:780-791; rows is the store's answer to
\* the query of line 784
get_top_entity(quest, d, rows) ==
    LET k == FirstKeyword(Lower(quest))
        e == STAT_MAP[k]
    IN  IF k = 0 THEN None
        ELSE IF SelectFails(e.table, {"player_id", e.column}) THEN Raised
        ELSE IF rows = <<>>
             THEN Str(<<"No se encuentra informacio'n sobre ">> \o e.label \o <<".">>)
        ELSE LET topRow == rows[1]
                 player_row == Eq(d.players, "id", topRow["player_id"])
                 player_name == IF player_row # <<>> THEN player_row[1].name
                                ELSE Desconocido
             IN  Str(TopAnswer(e, topRow, player_name))


----------------------------------------------------------------------------
(* The scripted dialogue *)

\* the `if` statements of get_smalltalk, chatbot.py:150-775, in order: the
\* source line, the connective of the condition, the substrings it tests and
\* the reply it returns
SMALLTALK == <<
    [line |-> 150, op |-> "or",
     triggers |-> <<<<"c", "o", "m", "o", " ", "t", "e", " ", "l", "l", "a", "m", "a", "s">>>>,
     response |-> <<"Au'n no tengo nombre, mi creador no supo que ponerme, ayudale con alguna idea chula">>],
    [line |-> 152, op |-> "or",
     triggers |-> <<<<"q", "u", "e", " ", "p", "u", "e", "d", "e", "s", " ", "h", "a", "c", "e", "r">>>>,
     response |-> <<"Puedo darte informacio'n sobre jugadores, equipos, a'rbitros y estadios... y muchas cosas ma's">>],
    [line |-> 154, op |-> "or",
     triggers |-> <<<<"h", "o", "l", "a">>,
                   <<"b", "u", "e", "n", "a", "s">>>>,
     response |-> <<"!Hola! ?Que' quieres consultar sobre fu'tbol?">>],
    [line |-> 156, op |-> "or",
     triggers |-> <<<<"q", "u", "i", "e", "n", " ", "e", "r", "e", "s">>>>,
     response |-> <<"Soy tu asistente de fu'tbol, listo para darte estadi'sticas y curiosidades.">>],
    [line |-> 159, op |-> "or",
     triggers |-> <<<<"q", "u", "e", " ", "t", "a", "l">>,
                   <<"c", "o", "m", "o", " ", "e", "s", "t", "a", "s">>>>,
     response |-> <<"!Todo bien! Preparado para hablar de fu'tbol contigo.">>],
    [line |-> 162, op |-> "or",
     triggers |-> <<<<"a", "d", "i", "o", "s">>,
                   <<"h", "a", "s", "t", "a", " ", "l", "u", "e", "g", "o">>,
                   <<"n", "o", "s", " ", "v", "e", "m", "o", "s">>>>,
     response |-> <<"!Hasta pronto! Disfruta del fu'tbol.">>],
    [line |-> 165, op |-> "or",
     triggers |-> <<<<"g", "r", "a", "c", "i", "a", "s">>,
                   <<"m", "u", "c", "h", "a", "s", " ", "g", "r", "a", "c", "i", "a", "s">>>>,
     response |-> <<"!De nada! Encantado de ayudarte con tus consultas.">>],
    [line |-> 168, op |-> "or",
     triggers |-> <<<<"v", "a", "m", "o", "s">>,
                   <<"v", "a", "m", "o">>>>,
     response |-> <<"!Vamos! El fu'tbol siempre nos da emocio'n.">>],
    [line |-> 171, op |-> "or",
     triggers |-> <<<<"q", "u", "i", "e", "n", " ", "g", "a", "n", "o">>>>,
     response |-> <<"Da igual quien gane o pierda, lo importante es disfrutar de lo que amamos">>],
    [line |-> 174, op |-> "or",
     triggers |-> <<<<"q", "u", "e", " ", "o", "p", "i", "n", "a", "s">>>>,
     response |-> <<"Prefiero darte datos objetivos, aunque el fu'tbol siempre genera opiniones apasionadas.">>],
    [line |-> 177, op |-> "or",
     triggers |-> <<<<"b", "u", "e", "n", "o", "s", " ", "d", "i", "a", "s">>,
                   <<"b", "u", "e", "n", "a", "s", " ", "t", "a", "r", "d", "e", "s">>,
                   <<"b", "u", "e", "n", "a", "s", " ", "n", "o", "c", "h", "e", "s">>>>,
     response |-> <<"!Muy buenas! ?Listo para hablar de fu'tbol?">>],
    [line |-> 180, op |-> "or",
     triggers |-> <<<<"e", "n", "c", "a", "n", "t", "a", "d", "o">>,
                   <<"m", "u", "c", "h", "o", " ", "g", "u", "s", "t", "o">>>>,
     response |-> <<"El gusto es mi'o, siempre preparado para charlar de fu'tbol contigo.">>],
    [line |-> 183, op |-> "or",
     triggers |-> <<<<"m", "e", " ", "g", "u", "s", "t", "a", " ", "e", "l", " ", "f", "u", "t", "b", "o", "l">>,
                   <<"a", "m", "o", " ", "e", "l", " ", "f", "u", "t", "b", "o", "l">>>>,
     response |-> <<"!A mi' tambie'n! El fu'tbol es pasio'n.">>],
    [line |-> 186, op |-> "or",
     triggers |-> <<<<"c", "u", "a", "n", "t", "o", "s", " ", "a", "n~", "o", "s", " ", "t", "i", "e", "n", "e", "s">>,
                   <<"e", "d", "a", "d">>>>,
     response |-> <<"Acabo de nacer, no tengo ni un an~ito. Pero eso no me impide para charlar de fu'tbol contigo">>],
    [line |-> 189, op |-> "or",
     triggers |-> <<<<"e", "r", "e", "s", " ", "i", "n", "t", "e", "l", "i", "g", "e", "n", "t", "e">>,
                   <<"e", "r", "e", "s", " ", "l", "i", "s", "t", "o">>>>,
     response |-> <<"Gracias, intento ser lo ma's u'til posible con tus consultas futboleras.">>],
    [line |-> 192, op |-> "or",
     triggers |-> <<<<"e", "s", "t", "a", "s", " ", "a", "h", "i">>,
                   <<"s", "i", "g", "u", "e", "s", " ", "a", "h", "i">>>>,
     response |-> <<"Si', aqui' estoy, listo para responderte.">>],
    [line |-> 195, op |-> "or",
     triggers |-> <<<<"m", "e", " ", "a", "b", "u", "r", "r", "o">>,
                   <<"e", "s", "t", "o", "y", " ", "a", "b", "u", "r", "r", "i", "d", "o">>>>,
     response |-> <<"El fu'tbol siempre tiene algo interesante, ?quieres que te cuente alguna estadi'stica curiosa?">>],
    [line |-> 198, op |-> "or",
     triggers |-> <<<<"c", "u", "e", "n", "t", "a", "m", "e", " ", "u", "n", " ", "d", "a", "t", "o", " ", "c", "u", "r", "i", "o", "s", "o">>,
                   <<"s", "a", "b", "e", "s", " ", "a", "l", "g", "u", "n", "a", " ", "c", "u", "r", "i", "o", "s", "i", "d", "a", "d">>>>,
     response |-> <<"Claro, por ejemplo: ?sabi'as que el gol ma's ra'pido registrado en la historia del fu'tbol profesional se anoto' a los 2.4 segundos de partido, obra de Nawaf Al-Abed en una liga de Arabia Saudita?">>],
    [line |-> 201, op |-> "or",
     triggers |-> <<<<"f", "e", "l", "i", "z", " ", "n", "a", "v", "i", "d", "a", "d">>,
                   <<"f", "e", "l", "i", "c", "e", "s", " ", "f", "i", "e", "s", "t", "a", "s">>>>,
     response |-> <<"!Felices fiestas! Que el fu'tbol te acompan~e en estas celebraciones.">>],
    [line |-> 204, op |-> "or",
     triggers |-> <<<<"f", "e", "l", "i", "z", " ", "c", "u", "m", "p", "l", "e", "a", "n~", "o", "s">>,
                   <<"c", "u", "m", "p", "l", "e", "a", "n~", "o", "s">>>>,
     response |-> <<"!Feliz cumplean~os! Espero que tu di'a este' lleno de goles y victorias.">>],
    [line |-> 207, op |-> "or",
     triggers |-> <<<<"m", "e", " ", "a", "y", "u", "d", "a", "s">>,
                   <<"p", "u", "e", "d", "e", "s", " ", "a", "y", "u", "d", "a", "r", "m", "e">>>>,
     response |-> <<"!Claro! Pregunta lo que quieras sobre fu'tbol y te dare' la mejor respuesta posible.">>],
    [line |-> 210, op |-> "or",
     triggers |-> <<<<"m", "e", " ", "r", "e", "c", "o", "m", "i", "e", "n", "d", "a", "s">>,
                   <<"q", "u", "e", " ", "m", "e", " ", "a", "c", "o", "n", "s", "e", "j", "a", "s">>>>,
     response |-> <<"Te recomiendo explorar estadi'sticas de jugadores o equipos, siempre hay datos interesantes.">>],
    [line |-> 213, op |-> "or",
     triggers |-> <<<<"m", "e", " ", "a", "b", "u", "r", "r", "e", "s">>,
                   <<"e", "r", "e", "s", " ", "a", "b", "u", "r", "r", "i", "d", "o">>>>,
     response |-> <<"Lo siento, intentare' ser ma's entretenido. ?Quieres que te cuente una curiosidad futbolera?">>],
    [line |-> 216, op |-> "or",
     triggers |-> <<<<"m", "e", " ", "c", "a", "e", "s", " ", "b", "i", "e", "n">>,
                   <<"e", "r", "e", "s", " ", "s", "i", "m", "p", "a", "t", "i", "c", "o">>>>,
     response |-> <<"!Gracias! Intento ser un buen compan~ero futbolero.">>],
    [line |-> 219, op |-> "or",
     triggers |-> <<<<"e", "r", "e", "s", " ", "r", "e", "a", "l">>,
                   <<"e", "x", "i", "s", "t", "e", "s">>>>,
     response |-> <<"Soy virtual, pero mis respuestas esta'n basadas en datos reales de tu base de fu'tbol.">>],
    [line |-> 222, op |-> "or",
     triggers |-> <<<<"e", "r", "e", "s", " ", "h", "u", "m", "a", "n", "o">>,
                   <<"t", "i", "e", "n", "e", "s", " ", "c", "u", "e", "r", "p", "o">>>>,
     response |-> <<"No soy humano, solo soy un asistente virtual especializado en fu'tbol.">>],
    [line |-> 225, op |-> "or",
     triggers |-> <<<<"m", "e", " ", "e", "n", "t", "i", "e", "n", "d", "e", "s">>,
                   <<"e", "n", "t", "i", "e", "n", "d", "e", "s">>>>,
     response |-> <<"Si', entiendo tu consulta y la traduzco en datos futboleros.">>],
    [line |-> 228, op |-> "or",
     triggers |-> <<<<"c", "u", "e", "n", "t", "a", "m", "e", " ", "u", "n", " ", "c", "h", "i", "s", "t", "e">>,
                   <<"d", "i", "m", "e", " ", "u", "n", " ", "c", "h", "i", "s", "t", "e">>>>,
     response |-> <<"?Sabes cua'l es el colmo de un portero? Que le hagan un tu'nel en su propia casa.">>],
    [line |-> 231, op |-> "or",
     triggers |-> <<<<"e", "r", "e", "s", " ", "g", "r", "a", "c", "i", "o", "s", "o">>,
                   <<"t", "i", "e", "n", "e", "s", " ", "h", "u", "m", "o", "r">>>>,
     response |-> <<"Intento ponerle humor al fu'tbol, aunque los datos son mi especialidad.">>],
    [line |-> 234, op |-> "or",
     triggers |-> <<<<"m", "e", " ", "s", "a", "l", "u", "d", "a", "s">>,
                   <<"s", "a", "l", "u", "d", "a", "m", "e">>>>,
     response |-> <<"Alooo Presidentessss. Upss, me crei' Illojuan por un momento. Un saludo campeo'n">>],
    [line |-> 237, op |-> "or",
     triggers |-> <<<<"m", "e", " ", "a", "l", "e", "g", "r", "o">>,
                   <<"q", "u", "e", " ", "b", "i", "e", "n">>>>,
     response |-> <<"!Genial! El fu'tbol siempre trae buenas noticias.">>],
    [line |-> 240, op |-> "or",
     triggers |-> <<<<"e", "s", "t", "o", "y", " ", "t", "r", "i", "s", "t", "e">>,
                   <<"m", "e", " ", "s", "i", "e", "n", "t", "o", " ", "m", "a", "l">>>>,
     response |-> <<"A'nimo, el fu'tbol siempre tiene momentos que levantan el espi'ritu.">>],
    [line |-> 243, op |-> "or",
     triggers |-> <<<<"e", "s", "t", "o", "y", " ", "f", "e", "l", "i", "z">>,
                   <<"m", "e", " ", "s", "i", "e", "n", "t", "o", " ", "b", "i", "e", "n">>>>,
     response |-> <<"!Me alegra escucharlo! El fu'tbol tambie'n celebra la alegri'a.">>],
    [line |-> 246, op |-> "or",
     triggers |-> <<<<"t", "e", " ", "g", "u", "s", "t", "a", " ", "e", "l", " ", "f", "u", "t", "b", "o", "l">>,
                   <<"a", "m", "a", "s", " ", "e", "l", " ", "f", "u", "t", "b", "o", "l">>>>,
     response |-> <<"!Claro! El fu'tbol es mi razo'n de existir.">>],
    [line |-> 249, op |-> "or",
     triggers |-> <<<<"q", "u", "i", "e", "n", " ", "e", "s", " ", "e", "l", " ", "m", "e", "j", "o", "r", " ", "j", "u", "g", "a", "d", "o", "r">>>>,
     response |-> <<"Eso depende de la e'poca y del criterio.">>],
    [line |-> 252, op |-> "or",
     triggers |-> <<<<"q", "u", "i", "e", "n", " ", "e", "s", " ", "e", "l", " ", "m", "e", "j", "o", "r", " ", "e", "q", "u", "i", "p", "o">>>>,
     response |-> <<"Cada aficionado tiene su favorito.">>],
    [line |-> 255, op |-> "or",
     triggers |-> <<<<"m", "e", " ", "c", "u", "e", "n", "t", "a", "s", " ", "u", "n", "a", " ", "h", "i", "s", "t", "o", "r", "i", "a">>,
                   <<"c", "u", "e", "n", "t", "a", "m", "e", " ", "a", "l", "g", "o">>>>,
     response |-> <<"Final del Mundial 2010, minuto 116: Cesc filtra el pase, Iniesta controla con el alma y, con un latigazo seco, rompe la red. !Gol! Espan~a entera estalla, Casillas cae de rodillas, y Andre's corre desatado, se quita la camiseta para mostrar 'Dani Jarque siempre con nosotros'. Es el grito que nos hizo campeones: !Iniesta de mi vida!">>],
    [line |-> 258, op |-> "or",
     triggers |-> <<<<"e", "r", "e", "s", " ", "a", "b", "u", "r", "r", "i", "d", "o">>,
                   <<"n", "o", " ", "m", "e", " ", "g", "u", "s", "t", "a">>>>,
     response |-> <<"Lo siento, intentare' ser ma's entretenido. ?Quieres que te de' un dato curioso?">>],
    [line |-> 261, op |-> "or",
     triggers |-> <<<<"e", "r", "e", "s", " ", "d", "i", "v", "e", "r", "t", "i", "d", "o">>,
                   <<"m", "e", " ", "h", "a", "c", "e", "s", " ", "r", "e", "i", "r">>>>,
     response |-> <<"!Gracias! El fu'tbol tambie'n tiene su lado gracioso.">>],
    [line |-> 264, op |-> "or",
     triggers |-> <<<<"m", "e", " ", "d", "a", "s", " ", "s", "u", "e", "r", "t", "e">>,
                   <<"t", "r", "a", "e", "s", " ", "s", "u", "e", "r", "t", "e">>>>,
     response |-> <<"Muchas gracias, puedo ser tu tre'bol de cuatro hojas a partir de ahora">>],
    [line |-> 267, op |-> "or",
     triggers |-> <<<<"v", "a", "m", "o", "s", " ", "e", "q", "u", "i", "p", "o">>,
                   <<"v", "a", "m", "o", "s", " ", "c", "a", "m", "p", "e", "o", "n">>>>,
     response |-> <<"!Vamos! La pasio'n por el fu'tbol nunca se detiene.">>],
    [line |-> 270, op |-> "or",
     triggers |-> <<<<"n", "o", " ", "t", "e", " ", "r", "i", "n", "d", "a", "s">>,
                   <<"s", "i", "g", "u", "e", " ", "a", "d", "e", "l", "a", "n", "t", "e">>>>,
     response |-> <<"En el fu'tbol, como en la vida, la perseverancia siempre trae recompensas.">>],
    [line |-> 273, op |-> "or",
     triggers |-> <<<<"l", "a", " ", "p", "a", "s", "i", "o", "n", " ", "n", "u", "n", "c", "a", " ", "m", "u", "e", "r", "e">>,
                   <<"e", "l", " ", "f", "u", "t", "b", "o", "l", " ", "n", "u", "n", "c", "a", " ", "m", "u", "e", "r", "e">>>>,
     response |-> <<"Exacto, la pasio'n por el fu'tbol es eterna.">>],
    [line |-> 276, op |-> "or",
     triggers |-> <<<<"a", "r", "r", "i", "b", "a">>,
                   <<"f", "u", "e", "r", "z", "a">>>>,
     response |-> <<"!A'nimo! El fu'tbol siempre nos da razones para seguir.">>],
    [line |-> 279, op |-> "or",
     triggers |-> <<<<"s", "o", "m", "o", "s", " ", "l", "o", "s", " ", "m", "e", "j", "o", "r", "e", "s">>,
                   <<"s", "o", "m", "o", "s", " ", "c", "a", "m", "p", "e", "o", "n", "e", "s">>>>,
     response |-> <<"!Orgullo total! El fu'tbol se vive con corazo'n.">>],
    [line |-> 282, op |-> "or",
     triggers |-> <<<<"q", "u", "i", "e", "r", "o", " ", "m", "o", "t", "i", "v", "a", "c", "i", "o", "n">>,
                   <<"m", "o", "t", "i", "v", "a", "m", "e">>>>,
     response |-> <<"El fu'tbol ensen~a que cada partido es una nueva oportunidad para brillar.">>],
    [line |-> 285, op |-> "or",
     triggers |-> <<<<"g", "r", "i", "t", "a", " ", "g", "o", "l">>,
                   <<"g", "o", "l", "a", "z", "o">>>>,
     response |-> <<"!GOOOOL! Nada se compara con la emocio'n de un gol.">>],
    [line |-> 288, op |-> "or",
     triggers |-> <<<<"s", "i", " ", "s", "e", " ", "p", "u", "e", "d", "e", " ", "s", "i", " ", "s", "e", " ", "p", "u", "e", "d", "e", " ", "e", "s", "t", "o", "y", " ", "e", "s", "c", "u", "c", "h", "a", "n", "d", "o">>>>,
     response |-> <<"No, de hecho los canticos son de directiva dimisio'n">>],
    [line |-> 291, op |-> "or",
     triggers |-> <<<<"l", "a", " ", "a", "f", "i", "c", "i", "o", "n">>,
                   <<"l", "o", "s", " ", "h", "i", "n", "c", "h", "a", "s">>>>,
     response |-> <<"La aficio'n es el alma del fu'tbol, sin ellos no habri'a magia.">>],
    [line |-> 294, op |-> "or",
     triggers |-> <<<<"e", "l", " ", "f", "u", "t", "b", "o", "l", " ", "e", "s", " ", "v", "i", "d", "a">>,
                   <<"e", "l", " ", "f", "u", "t", "b", "o", "l", " ", "e", "s", " ", "t", "o", "d", "o">>>>,
     response |-> <<"Asi' es, el fu'tbol es ma's que un deporte, es una forma de vivir.">>],
    [line |-> 297, op |-> "or",
     triggers |-> <<<<"q", "u", "i", "e", "r", "o", " ", "a", "n", "i", "m", "o", "s">>,
                   <<"d", "a", "m", "e", " ", "a", "n", "i", "m", "o", "s">>>>,
     response |-> <<"!Tu' puedes! El fu'tbol siempre nos recuerda que nunca hay que rendirse.">>],
    [line |-> 300, op |-> "or",
     triggers |-> <<<<"a", "r", "b", "i", "t", "r", "o", " ", "c", "o", "m", "p", "r", "a", " ", "g", "a", "f", "a", "s">>,
                   <<"a", "r", "b", "i", "t", "r", "o", " ", "c", "i", "e", "g", "o">>>>,
     response |-> <<"Jajaja, los a'rbitros siempre son protagonistas de la pole'mica.">>],
    [line |-> 303, op |-> "or",
     triggers |-> <<<<"e", "s", "e", " ", "g", "o", "l", " ", "l", "o", " ", "m", "e", "t", "i", "a", " ", "m", "i", " ", "a", "b", "u", "e", "l", "a">>,
                   <<"l", "o", " ", "m", "e", "t", "i", "a", " ", "c", "u", "a", "l", "q", "u", "i", "e", "r", "a">>>>,
     response |-> <<"!Jajaja! A veces los goles parecen fa'ciles, pero en el campo nunca lo son.">>],
    [line |-> 306, op |-> "or",
     triggers |-> <<<<"a", "r", "b", "i", "t", "r", "o", " ", "v", "e", "n", "d", "i", "d", "o">>,
                   <<"a", "r", "b", "i", "t", "r", "o", " ", "c", "o", "m", "p", "r", "a", "d", "o">>>>,
     response |-> <<"El arbitraje siempre genera debate, pero yo prefiero darte datos objetivos.">>],
    [line |-> 309, op |-> "or",
     triggers |-> <<<<"q", "u", "e", " ", "d", "e", "s", "a", "s", "t", "r", "e">>,
                   <<"q", "u", "e", " ", "m", "a", "l", " ", "j", "u", "g", "a", "m", "o", "s">>>>,
     response |-> <<"El fu'tbol tiene di'as buenos y malos, lo importante es seguir apoyando al equipo.">>],
    [line |-> 312, op |-> "or",
     triggers |-> <<<<"s", "o", "m", "o", "s", " ", "m", "a", "l", "o", "s">>,
                   <<"j", "u", "g", "a", "m", "o", "s", " ", "f", "a", "t", "a", "l">>>>,
     response |-> <<"A'nimo, cada equipo tiene altibajos, pero siempre hay oportunidad de mejorar.">>],
    [line |-> 315, op |-> "or",
     triggers |-> <<<<"q", "u", "e", " ", "p", "a", "r", "t", "i", "d", "a", "z", "o">>,
                   <<"g", "r", "a", "n", " ", "p", "a", "r", "t", "i", "d", "o">>>>,
     response |-> <<"!Si'! El fu'tbol nos regala emociones u'nicas en cada encuentro.">>],
    [line |-> 318, op |-> "or",
     triggers |-> <<<<"q", "u", "e", " ", "a", "b", "u", "r", "r", "i", "d", "o">>,
                   <<"p", "a", "r", "t", "i", "d", "o", " ", "a", "b", "u", "r", "r", "i", "d", "o">>>>,
     response |-> <<"A veces pasa, pero hasta los partidos ma's tranquilos esconden datos interesantes.">>],
    [line |-> 321, op |-> "or",
     triggers |-> <<<<"q", "u", "e", " ", "n", "e", "r", "v", "i", "o", "s">>,
                   <<"e", "s", "t", "o", "y", " ", "n", "e", "r", "v", "i", "o", "s", "o">>>>,
     response |-> <<"El fu'tbol siempre nos pone al borde del asiento, !esa es su magia!">>],
    [line |-> 324, op |-> "or",
     triggers |-> <<<<"q", "u", "e", " ", "e", "m", "o", "c", "i", "o", "n">>,
                   <<"e", "s", "t", "o", "y", " ", "e", "m", "o", "c", "i", "o", "n", "a", "d", "o">>>>,
     response |-> <<"!Eso es lo mejor del fu'tbol! La emocio'n nunca falta.">>],
    [line |-> 327, op |-> "or",
     triggers |-> <<<<"q", "u", "e", " ", "i", "n", "j", "u", "s", "t", "o">>,
                   <<"n", "o", " ", "f", "u", "e", " ", "j", "u", "s", "t", "o">>>>,
     response |-> <<"El fu'tbol no siempre es justo, pero siempre es apasionante.">>],
    [line |-> 330, op |-> "or",
     triggers |-> <<<<"m", "i", " ", "e", "q", "u", "i", "p", "o", " ", "e", "s", " ", "m", "e", "j", "o", "r">>,
                   <<"n", "u", "e", "s", "t", "r", "o", " ", "e", "q", "u", "i", "p", "o", " ", "e", "s", " ", "e", "l", " ", "m", "e", "j", "o", "r">>>>,
     response |-> <<"!Eso es pasio'n de hincha! Cada aficionado defiende a su equipo con orgullo.">>],
    [line |-> 333, op |-> "or",
     triggers |-> <<<<"t", "u", " ", "e", "q", "u", "i", "p", "o", " ", "e", "s", " ", "m", "a", "l", "o">>,
                   <<"e", "s", "e", " ", "e", "q", "u", "i", "p", "o", " ", "e", "s", " ", "m", "a", "l", "o">>>>,
     response |-> <<"Cada equipo tiene altibajos, pero todos forman parte de la historia del fu'tbol.">>],
    [line |-> 336, op |-> "or",
     triggers |-> <<<<"l", "o", "s", " ", "c", "l", "a", "s", "i", "c", "o", "s", " ", "s", "o", "n", " ", "l", "o", "s", " ", "m", "e", "j", "o", "r", "e", "s">>,
                   <<"m", "e", " ", "g", "u", "s", "t", "a", "n", " ", "l", "o", "s", " ", "c", "l", "a", "s", "i", "c", "o", "s">>>>,
     response |-> <<"Los cla'sicos siempre tienen una magia especial, llenos de rivalidad y emocio'n.">>],
    [line |-> 339, op |-> "or",
     triggers |-> <<<<"o", "d", "i", "o", " ", "a", " ", "e", "s", "e", " ", "e", "q", "u", "i", "p", "o">>,
                   <<"n", "o", " ", "m", "e", " ", "g", "u", "s", "t", "a", " ", "e", "s", "e", " ", "e", "q", "u", "i", "p", "o">>>>,
     response |-> <<"El fu'tbol despierta pasiones, pero tambie'n respeto por la competencia.">>],
    [line |-> 342, op |-> "or",
     triggers |-> <<<<"s", "o", "m", "o", "s", " ", "r", "i", "v", "a", "l", "e", "s">>,
                   <<"r", "i", "v", "a", "l", "i", "d", "a", "d">>>>,
     response |-> <<"La rivalidad hace que el fu'tbol sea ma's emocionante, siempre con respeto.">>],
    [line |-> 345, op |-> "or",
     triggers |-> <<<<"g", "a", "n", "a", "m", "o", "s", " ", "e", "l", " ", "c", "l", "a", "s", "i", "c", "o">>,
                   <<"p", "e", "r", "d", "i", "m", "o", "s", " ", "e", "l", " ", "c", "l", "a", "s", "i", "c", "o">>>>,
     response |-> <<"Los cla'sicos marcan historia, cada resultado se recuerda por an~os.">>],
    [line |-> 348, op |-> "or",
     triggers |-> <<<<"q", "u", "i", "e", "n", " ", "e", "s", " ", "n", "u", "e", "s", "t", "r", "o", " ", "r", "i", "v", "a", "l">>,
                   <<"c", "u", "a", "l", " ", "e", "s", " ", "e", "l", " ", "r", "i", "v", "a", "l">>>>,
     response |-> <<"Cada equipo tiene su cla'sico rival.">>],
    [line |-> 351, op |-> "or",
     triggers |-> <<<<"o", "d", "i", "o", " ", "a", "l", " ", "a", "r", "b", "i", "t", "r", "o">>,
                   <<"m", "a", "l", " ", "a", "r", "b", "i", "t", "r", "o">>>>,
     response |-> <<"Los a'rbitros siempre generan debate, pero sin ellos no habri'a partido.">>],
    [line |-> 354, op |-> "or",
     triggers |-> <<<<"l", "a", " ", "l", "i", "g", "a", " ", "e", "s", " ", "n", "u", "e", "s", "t", "r", "a">>,
                   <<"v", "a", "m", "o", "s", " ", "a", " ", "g", "a", "n", "a", "r", " ", "l", "a", " ", "l", "i", "g", "a">>>>,
     response |-> <<"!Eso es confianza! La liga siempre es una batalla emocionante.">>],
    [line |-> 357, op |-> "or",
     triggers |-> <<<<"l", "a", " ", "c", "o", "p", "a", " ", "e", "s", " ", "n", "u", "e", "s", "t", "r", "a">>,
                   <<"v", "a", "m", "o", "s", " ", "a", " ", "g", "a", "n", "a", "r", " ", "l", "a", " ", "c", "o", "p", "a">>>>,
     response |-> <<"!A por la copa! Cada torneo tiene su propia gloria.">>],
    [line |-> 360, op |-> "or",
     triggers |-> <<<<"q", "u", "e", " ", "m", "i", "r", "a", "s", " ", "b", "o", "b", "o">>>>,
     response |-> <<"Anda palla bobo">>],
    [line |-> 363, op |-> "or",
     triggers |-> <<<<"o", "l", "e", " ", "o", "l", "e", " ", "o", "l", "e">>,
                   <<"o", "l", "e", " ", "o", "l", "e">>>>,
     response |-> <<"!Ole', ole', ole'! Asi' se anima a un equipo en el estadio.">>],
    [line |-> 366, op |-> "or",
     triggers |-> <<<<"d", "a", "l", "e", " ", "c", "a", "m", "p", "e", "o", "n">>,
                   <<"v", "a", "m", "o", "s", " ", "c", "a", "m", "p", "e", "o", "n">>>>,
     response |-> <<"!Dale campeo'n! El fu'tbol se vive con corazo'n y orgullo.">>],
    [line |-> 369, op |-> "or",
     triggers |-> <<<<"s", "o", "m", "o", "s", " ", "l", "a", " ", "m", "e", "j", "o", "r", " ", "h", "i", "n", "c", "h", "a", "d", "a">>,
                   <<"l", "a", " ", "m", "e", "j", "o", "r", " ", "a", "f", "i", "c", "i", "o", "n">>>>,
     response |-> <<"!Claro que si'! La aficio'n es el motor del fu'tbol.">>],
    [line |-> 372, op |-> "or",
     triggers |-> <<<<"c", "a", "n", "t", "e", "m", "o", "s">>,
                   <<"c", "a", "n", "t", "a", " ", "c", "o", "n", "m", "i", "g", "o">>>>,
     response |-> <<"(notes) Muchachos, ahora nos volvimos a ilusionar, quiero ganar la tercera, quiero ser campeo'n mundial... (notes)">>],
    [line |-> 375, op |-> "or",
     triggers |-> <<<<"e", "s", "t", "a", " ", "e", "s", " ", "t", "u", " ", "h", "i", "n", "c", "h", "a", "d", "a">>,
                   <<"e", "s", "t", "a", " ", "e", "s", " ", "t", "u", " ", "a", "f", "i", "c", "i", "o", "n">>>>,
     response |-> <<"!Siempre presente! La hinchada acompan~a en las buenas y en las malas.">>],
    [line |-> 378, op |-> "or",
     triggers |-> <<<<"q", "u", "e", " ", "c", "a", "n", "t", "e", " ", "l", "a", " ", "g", "e", "n", "t", "e">>,
                   <<"c", "a", "n", "t", "a", " ", "l", "a", " ", "a", "f", "i", "c", "i", "o", "n">>>>,
     response |-> <<"!La voz de la aficio'n hace temblar los estadios!">>],
    [line |-> 381, op |-> "or",
     triggers |-> <<<<"s", "o", "m", "o", "s", " ", "l", "o", "c", "a", "l", "e", "s">>,
                   <<"j", "u", "g", "a", "m", "o", "s", " ", "e", "n", " ", "c", "a", "s", "a">>>>,
     response |-> <<"!La casa siempre pesa! Jugar de local es un plus enorme.">>],
    [line |-> 384, op |-> "or",
     triggers |-> <<<<"s", "o", "m", "o", "s", " ", "v", "i", "s", "i", "t", "a", "n", "t", "e", "s">>,
                   <<"j", "u", "g", "a", "m", "o", "s", " ", "f", "u", "e", "r", "a">>>>,
     response |-> <<"De visitante tambie'n se puede ganar, !con garra y corazo'n!">>],
    [line |-> 387, op |-> "or",
     triggers |-> <<<<"l", "a", " ", "h", "i", "n", "c", "h", "a", "d", "a", " ", "n", "u", "n", "c", "a", " ", "a", "b", "a", "n", "d", "o", "n", "a">>,
                   <<"l", "a", " ", "a", "f", "i", "c", "i", "o", "n", " ", "n", "u", "n", "c", "a", " ", "a", "b", "a", "n", "d", "o", "n", "a">>>>,
     response |-> <<"Exacto, la verdadera aficio'n esta' siempre, gane o pierda el equipo.">>],
    [line |-> 390, op |-> "or",
     triggers |-> <<<<"v", "a", "m", "o", "s", " ", "d", "e", " ", "f", "i", "e", "s", "t", "a">>,
                   <<"a", " ", "c", "e", "l", "e", "b", "r", "a", "r">>>>,
     response |-> <<"!Claro que si'! Despue's de una victoria, la fiesta dura toda la noche, sino preguntale a Oihan Sancet.">>],
    [line |-> 393, op |-> "or",
     triggers |-> <<<<"l", "o", " ", "c", "e", "l", "e", "b", "r", "a", "m", "o", "s", " ", "t", "o", "d", "a", " ", "l", "a", " ", "n", "o", "c", "h", "e">>,
                   <<"f", "i", "e", "s", "t", "a", " ", "t", "o", "d", "a", " ", "l", "a", " ", "n", "o", "c", "h", "e">>>>,
     response |-> <<"!Eso es espi'ritu de campeo'n! La celebracio'n nunca termina.">>],
    [line |-> 396, op |-> "or",
     triggers |-> <<<<"b", "r", "i", "n", "d", "e", "m", "o", "s">>,
                   <<"u", "n", " ", "b", "r", "i", "n", "d", "i", "s">>>>,
     response |-> <<"!Salud por el fu'tbol y por la victoria!">>],
    [line |-> 399, op |-> "or",
     triggers |-> <<<<"s", "o", "m", "o", "s", " ", "c", "a", "m", "p", "e", "o", "n", "e", "s">>,
                   <<"c", "a", "m", "p", "e", "o", "n", "e", "s">>>>,
     response |-> <<"!Campeones! Nada se compara con levantar el trofeo.">>],
    [line |-> 402, op |-> "or",
     triggers |-> <<<<"g", "a", "n", "a", "m", "o", "s">>,
                   <<"h", "e", "m", "o", "s", " ", "g", "a", "n", "a", "d", "o">>>>,
     response |-> <<"!Victoria! El esfuerzo del equipo dio sus frutos.">>],
    [line |-> 405, op |-> "or",
     triggers |-> <<<<"p", "e", "r", "d", "i", "m", "o", "s">>,
                   <<"h", "e", "m", "o", "s", " ", "p", "e", "r", "d", "i", "d", "o">>>>,
     response |-> <<"Hoy no fue el di'a, pero siempre habra' otra oportunidad.">>],
    [line |-> 408, op |-> "or",
     triggers |-> <<<<"c", "e", "l", "e", "b", "r", "a", "c", "i", "o", "n">>,
                   <<"f", "i", "e", "s", "t", "a", " ", "f", "u", "t", "b", "o", "l", "e", "r", "a">>>>,
     response |-> <<"!La celebracio'n futbolera es u'nica, llena de ca'nticos y alegri'a!">>],
    [line |-> 411, op |-> "or",
     triggers |-> <<<<"t", "r", "o", "f", "e", "o">>,
                   <<"c", "o", "p", "a">>>>,
     response |-> <<"Levantar un trofeo es el suen~o de todo equipo y aficio'n.">>],
    [line |-> 414, op |-> "or",
     triggers |-> <<<<"v", "i", "c", "t", "o", "r", "i", "a", " ", "h", "i", "s", "t", "o", "r", "i", "c", "a">>,
                   <<"p", "a", "r", "t", "i", "d", "o", " ", "h", "i", "s", "t", "o", "r", "i", "c", "o">>>>,
     response |-> <<"!Eso quedara' en la memoria de todos los hinchas por generaciones!">>],
    [line |-> 417, op |-> "or",
     triggers |-> <<<<"d", "e", "r", "r", "o", "t", "a", " ", "d", "o", "l", "o", "r", "o", "s", "a">>,
                   <<"p", "e", "r", "d", "i", "m", "o", "s", " ", "f", "e", "o">>>>,
     response |-> <<"Las derrotas duelen, pero tambie'n ensen~an y fortalecen al equipo.">>],
    [line |-> 420, op |-> "or",
     triggers |-> <<<<"h", "o", "y", " ", "j", "u", "g", "a", "m", "o", "s">>,
                   <<"t", "e", "n", "e", "m", "o", "s", " ", "p", "a", "r", "t", "i", "d", "o">>>>,
     response |-> <<"!Hoy es di'a de fu'tbol! La emocio'n empieza desde antes de que ruede el balo'n.">>],
    [line |-> 423, op |-> "or",
     triggers |-> <<<<"e", "m", "p", "i", "e", "z", "a", " ", "e", "l", " ", "p", "a", "r", "t", "i", "d", "o">>,
                   <<"y", "a", " ", "c", "o", "m", "i", "e", "n", "z", "a">>>>,
     response |-> <<"!Que ruede el balo'n! La magia del fu'tbol esta' en marcha.">>],
    [line |-> 426, op |-> "or",
     triggers |-> <<<<"y", "a", " ", "r", "u", "e", "d", "a", " ", "e", "l", " ", "b", "a", "l", "o", "n">>,
                   <<"b", "a", "l", "o", "n", " ", "e", "n", " ", "j", "u", "e", "g", "o">>>>,
     response |-> <<"!El balo'n ya esta' en juego! A disfrutar cada minuto.">>],
    [line |-> 429, op |-> "or",
     triggers |-> <<<<"p", "r", "i", "m", "e", "r", " ", "t", "i", "e", "m", "p", "o">>,
                   <<"p", "r", "i", "m", "e", "r", " ", "p", "a", "r", "t", "e">>>>,
     response |-> <<"Arranca el primer tiempo, todo por decidir.">>],
    [line |-> 432, op |-> "or",
     triggers |-> <<<<"s", "e", "g", "u", "n", "d", "o", " ", "t", "i", "e", "m", "p", "o">>,
                   <<"s", "e", "g", "u", "n", "d", "a", " ", "p", "a", "r", "t", "e">>>>,
     response |-> <<"Comienza la segunda parte, donde se definen los partidos.">>],
    [line |-> 435, op |-> "or",
     triggers |-> <<<<"t", "i", "e", "m", "p", "o", " ", "e", "x", "t", "r", "a">>,
                   <<"p", "r", "o", "r", "r", "o", "g", "a">>>>,
     response |-> <<"!Pro'rroga! El fu'tbol nos regala ma's minutos de emocio'n.">>],
    [line |-> 438, op |-> "or",
     triggers |-> <<<<"p", "e", "n", "a", "l", "t", "i", "s">>,
                   <<"d", "e", "f", "i", "n", "i", "c", "i", "o", "n", " ", "p", "o", "r", " ", "p", "e", "n", "a", "l", "e", "s">>>>,
     response |-> <<"!A penaltis! El momento ma's tenso y emocionante del fu'tbol.">>],
    [line |-> 441, op |-> "or",
     triggers |-> <<<<"d", "e", "s", "c", "a", "n", "s", "o">>,
                   <<"e", "n", "t", "r", "e", "t", "i", "e", "m", "p", "o">>>>,
     response |-> <<"Es el descanso, buen momento para analizar lo que paso' en la primera parte.">>],
    [line |-> 444, op |-> "or",
     triggers |-> <<<<"a", "f", "i", "c", "i", "o", "n", " ", "c", "a", "n", "t", "a", "n", "d", "o">>,
                   <<"h", "i", "n", "c", "h", "a", "d", "a", " ", "c", "a", "n", "t", "a", "n", "d", "o">>>>,
     response |-> <<"!La aficio'n nunca se calla! Su voz es el motor del equipo.">>],
    [line |-> 447, op |-> "or",
     triggers |-> <<<<"a", "m", "b", "i", "e", "n", "t", "e", " ", "d", "e", " ", "e", "s", "t", "a", "d", "i", "o">>,
                   <<"q", "u", "e", " ", "a", "m", "b", "i", "e", "n", "t", "e">>>>,
     response |-> <<"El ambiente del estadio es u'nico, lleno de pasio'n y energi'a.">>],
    [line |-> 450, op |-> "or",
     triggers |-> <<<<"i", "n", "a", "z", "u", "m", "a", " ", "e", "l", "e", "v", "e", "n">>>>,
     response |-> <<"!Inazuma Eleven! Donde los supertiros y la amistad hacen que el fu'tbol sea e'pico.">>],
    [line |-> 453, op |-> "or",
     triggers |-> <<<<"m", "a", "r", "k", " ", "e", "v", "a", "n", "s">>,
                   <<"e", "n", "d", "o", "u", " ", "m", "a", "m", "o", "r", "u">>>>,
     response |-> <<"Mark Evans siempre creyo' en la fuerza del equipo y en parar cualquier tiro.">>],
    [line |-> 456, op |-> "or",
     triggers |-> <<<<"a", "x", "e", "l", " ", "b", "l", "a", "z", "e">>,
                   <<"g", "o", "u", "e", "n", "j", "i">>>>,
     response |-> <<"Axel Blaze, el delantero estrella, con su famoso 'Tornado de Fuego'.">>],
    [line |-> 459, op |-> "or",
     triggers |-> <<<<"o", "l", "i", "v", "e", "r", " ", "y", " ", "b", "e", "n", "j", "i">>,
                   <<"c", "a", "p", "t", "a", "i", "n", " ", "t", "s", "u", "b", "a", "s", "a">>>>,
     response |-> <<"Oliver y Benji nos ensen~aron que el campo podi'a ser infinito y lleno de emocio'n.">>],
    [line |-> 462, op |-> "or",
     triggers |-> <<<<"o", "l", "i", "v", "e", "r", " ", "a", "t", "o", "m">>,
                   <<"t", "s", "u", "b", "a", "s", "a", " ", "o", "z", "o", "r", "a">>>>,
     response |-> <<"Oliver Atom, el eterno son~ador del fu'tbol, siempre buscando ser el mejor del mundo.">>],
    [line |-> 465, op |-> "or",
     triggers |-> <<<<"b", "e", "n", "j", "i", " ", "p", "r", "i", "c", "e">>,
                   <<"g", "e", "n", "z", "o", " ", "w", "a", "k", "a", "b", "a", "y", "a", "s", "h", "i">>>>,
     response |-> <<"Benji Price, el portero imbatible, capaz de detener cualquier disparo imposible.">>],
    [line |-> 468, op |-> "or",
     triggers |-> <<<<"s", "t", "e", "v", "e", " ", "h", "y", "u", "g", "a">>,
                   <<"k", "o", "j", "i", "r", "o", " ", "h", "y", "u", "g", "a">>>>,
     response |-> <<"Steve Hyuga, el delantero con garra, famoso por su 'Tiro del Tigre'.">>],
    [line |-> 471, op |-> "or",
     triggers |-> <<<<"c", "a", "m", "p", "o", " ", "i", "n", "f", "i", "n", "i", "t", "o">>,
                   <<"p", "a", "r", "t", "i", "d", "o", "s", " ", "e", "t", "e", "r", "n", "o", "s">>>>,
     response |-> <<"!Eso es Oliver y Benji! Donde correr de porteri'a a porteri'a podi'a durar capi'tulos enteros.">>],
    [line |-> 474, op |-> "or",
     triggers |-> <<<<"s", "u", "p", "e", "r", "t", "i", "r", "o">>,
                   <<"t", "i", "r", "o", " ", "e", "s", "p", "e", "c", "i", "a", "l">>>>,
     response |-> <<"Los supertiros de Inazuma Eleven y Oliver y Benji son pura fantasi'a futbolera.">>],
    [line |-> 477, op |-> "or",
     triggers |-> <<<<"b", "a", "l", "o", "n", " ", "d", "e", " ", "f", "u", "e", "g", "o">>,
                   <<"t", "i", "r", "o", " ", "d", "e", "l", " ", "h", "a", "l", "c", "o", "n">>>>,
     response |-> <<"!Un cla'sico! Los tiros especiales haci'an que el fu'tbol fuera au'n ma's espectacular.">>],
    [line |-> 480, op |-> "or",
     triggers |-> <<<<"j", "u", "d", "e", " ", "s", "h", "a", "r", "p">>,
                   <<"j", "u", "d", "e">>,
                   <<"k", "i", "d", "o", "u", " ", "y", "u", "u", "t", "o">>>>,
     response |-> <<"Jude Sharp, el estratega del equipo, siempre con su 'Ojo del A'guila'.">>],
    [line |-> 483, op |-> "or",
     triggers |-> <<<<"s", "h", "a", "w", "n", " ", "f", "r", "o", "s", "t">>,
                   <<"f", "u", "b", "u", "k", "i", " ", "s", "h", "i", "r", "o", "u">>>>,
     response |-> <<"Shawn Frost, el delantero con doble personalidad, capaz de usar el 'Remate Doble'.">>],
    [line |-> 486, op |-> "or",
     triggers |-> <<<<"x", "a", "v", "i", "e", "r", " ", "f", "o", "s", "t", "e", "r">>,
                   <<"s", "a", "k", "u", "m", "a">>>>,
     response |-> <<"Xavier Foster, un rival temible con tiros espectaculares.">>],
    [line |-> 489, op |-> "or",
     triggers |-> <<<<"r", "o", "y", "c", "e">>,
                   <<"c", "o", "a", "c", "h", " ", "h", "i", "l", "l", "m", "a", "n">>>>,
     response |-> <<"El entrenador siempre recordaba que la unio'n del equipo era ma's fuerte que cualquier te'cnica.">>],
    [line |-> 492, op |-> "or",
     triggers |-> <<<<"t", "i", "r", "o", " ", "d", "e", "l", " ", "t", "i", "g", "r", "e">>>>,
     response |-> <<"El 'Tiro del Tigre' de Hyuga es uno de los ma's recordados de Oliver y Benji.">>],
    [line |-> 495, op |-> "or",
     triggers |-> <<<<"t", "i", "r", "o", " ", "c", "o", "n", " ", "e", "f", "e", "c", "t", "o">>,
                   <<"t", "i", "r", "o", " ", "b", "a", "n", "a", "n", "a">>>>,
     response |-> <<"El 'Tiro con Efecto' de Oliver Atom era imparable para muchos porteros.">>],
    [line |-> 498, op |-> "or",
     triggers |-> <<<<"t", "i", "r", "o", " ", "c", "o", "m", "b", "i", "n", "a", "d", "o">>,
                   <<"t", "i", "r", "o", " ", "e", "n", " ", "p", "a", "r", "e", "j", "a">>>>,
     response |-> <<"Los tiros combinados mostraban la fuerza de la amistad en el campo.">>],
    [line |-> 501, op |-> "or",
     triggers |-> <<<<"t", "i", "r", "o", " ", "d", "e", "l", " ", "h", "a", "l", "c", "o", "n">>,
                   <<"h", "a", "l", "c", "o", "n">>>>,
     response |-> <<"El 'Tiro del Halco'n' era pura fantasi'a futbolera.">>],
    [line |-> 504, op |-> "or",
     triggers |-> <<<<"t", "i", "r", "o", " ", "d", "e", "l", " ", "d", "r", "a", "g", "o", "n">>>>,
     response |-> <<"El 'Tiro del Drago'n' de Kojiro Hyuga era pura potencia y garra.">>],
    [line |-> 507, op |-> "or",
     triggers |-> <<<<"t", "i", "r", "o", " ", "c", "e", "l", "e", "s", "t", "i", "a", "l">>,
                   <<"t", "i", "r", "o", " ", "d", "e", "l", " ", "c", "i", "e", "l", "o">>>>,
     response |-> <<"El 'Tiro Celestial' de Inazuma Eleven mostraba la magia del fu'tbol anime.">>],
    [line |-> 510, op |-> "or",
     triggers |-> <<<<"c", "a", "m", "p", "o", " ", "i", "n", "f", "i", "n", "i", "t", "o">>,
                   <<"c", "a", "n", "c", "h", "a", " ", "i", "n", "t", "e", "r", "m", "i", "n", "a", "b", "l", "e">>>>,
     response |-> <<"Oliver y Benji nos hicieron creer que el campo podi'a durar kilo'metros.">>],
    [line |-> 513, op |-> "or",
     triggers |-> <<<<"b", "a", "l", "o", "n", " ", "d", "e", " ", "f", "u", "e", "g", "o">>>>,
     response |-> <<"El 'Balo'n de Fuego' era uno de los supertiros ma's espectaculares de Inazuma Eleven.">>],
    [line |-> 516, op |-> "or",
     triggers |-> <<<<"s", "u", "p", "e", "r", " ", "o", "n", "c", "e">>,
                   <<"e", "q", "u", "i", "p", "o", " ", "i", "n", "a", "z", "u", "m", "a">>>>,
     response |-> <<"El Super Once siempre demostraba que la amistad y el trabajo en equipo ganan partidos.">>],
    [line |-> 519, op |-> "or",
     triggers |-> <<<<"g", "e", "n", "z", "o", " ", "w", "a", "k", "a", "b", "a", "y", "a", "s", "h", "i">>,
                   <<"b", "e", "n", "j", "i", " ", "p", "r", "i", "c", "e">>>>,
     response |-> <<"Genzo Wakabayashi, conocido como Benji Price, el portero que nunca dejaba pasar un balo'n fa'cil.">>],
    [line |-> 522, op |-> "or",
     triggers |-> <<<<"f", "c", " ", "2", "6">>,
                   <<"e", "a", " ", "s", "p", "o", "r", "t", "s", " ", "f", "c", " ", "2", "6">>>>,
     response |-> <<"EA Sports FC 26 es la u'ltima entrega del simulador de fu'tbol, con novedades como los equipos Classic XI y mejoras jugables.">>],
    [line |-> 525, op |-> "or",
     triggers |-> <<<<"l", "i", "g", "a", " ", "f", "a", "n", "t", "a", "s", "y">>,
                   <<"l", "a", "l", "i", "g", "a", " ", "f", "a", "n", "t", "a", "s", "y">>>>,
     response |-> <<"LALIGA Fantasy es el manager oficial de LALIGA, donde puedes crear tu equipo y competir con amigos.">>],
    [line |-> 528, op |-> "or",
     triggers |-> <<<<"c", "l", "a", "s", "s", "i", "c", " ", "x", "i">>,
                   <<"e", "q", "u", "i", "p", "o", "s", " ", "c", "l", "a", "s", "i", "c", "o", "s">>>>,
     response |-> <<"En FC 26 puedes jugar con los Classic XI, equipos legendarios llenos de estrellas histo'ricas.">>],
    [line |-> 531, op |-> "or",
     triggers |-> <<<<"e", "v", "e", "n", "t", "o", "s", " ", "e", "s", "p", "e", "c", "i", "a", "l", "e", "s">>,
                   <<"c", "l", "a", "s", "i", "c", "o", " ", "f", "a", "n", "t", "a", "s", "y">>>>,
     response |-> <<"LALIGA Fantasy organiza eventos especiales como El Cla'sico, El Derbi de Madrid o El Gran Derbi.">>],
    [line |-> 534, op |-> "or",
     triggers |-> <<<<"m", "o", "d", "o", " ", "c", "a", "r", "r", "e", "r", "a">>,
                   <<"c", "a", "r", "e", "e", "r", " ", "m", "o", "d", "e">>>>,
     response |-> <<"En FC 26 el Modo Carrera te permite gestionar un club o vivir la carrera de un jugador.">>],
    [line |-> 537, op |-> "or",
     triggers |-> <<<<"u", "l", "t", "i", "m", "a", "t", "e", " ", "t", "e", "a", "m">>,
                   <<"f", "u", "t">>>>,
     response |-> <<"Ultimate Team en FC 26 sigue siendo el modo estrella para crear tu plantilla son~ada.">>],
    [line |-> 540, op |-> "or",
     triggers |-> <<<<"v", "o", "l", "t", "a">>,
                   <<"f", "u", "t", "b", "o", "l", " ", "c", "a", "l", "l", "e", "j", "e", "r", "o">>>>,
     response |-> <<"VOLTA en FC 26 trae el fu'tbol callejero con estilo y jugadas espectaculares.">>],
    [line |-> 543, op |-> "and",
     triggers |-> <<<<"c", "l", "a", "s", "i", "c", "o">>,
                   <<"f", "a", "n", "t", "a", "s", "y">>>>,
     response |-> <<"En LALIGA Fantasy puedes vivir El Cla'sico con puntuaciones especiales y retos u'nicos.">>],
    [line |-> 546, op |-> "and",
     triggers |-> <<<<"d", "e", "r", "b", "i">>,
                   <<"f", "a", "n", "t", "a", "s", "y">>>>,
     response |-> <<"Los derbis en LALIGA Fantasy son emocionantes, con premios y puntuaciones extra.">>],
    [line |-> 549, op |-> "or",
     triggers |-> <<<<"c", "a", "p", "i", "t", "a", "n", " ", "f", "a", "n", "t", "a", "s", "y">>,
                   <<"d", "o", "b", "l", "e", " ", "p", "u", "n", "t", "u", "a", "c", "i", "o", "n">>>>,
     response |-> <<"En LALIGA Fantasy tu capita'n puntu'a doble, eligiendo bien puedes ganar la jornada.">>],
    [line |-> 552, op |-> "or",
     triggers |-> <<<<"b", "a", "n", "q", "u", "i", "l", "l", "o", " ", "f", "a", "n", "t", "a", "s", "y">>,
                   <<"a", "l", "i", "n", "e", "a", "c", "i", "o", "n", " ", "f", "a", "n", "t", "a", "s", "y">>>>,
     response |-> <<"En LALIGA Fantasy puedes usar tu banquillo y ajustar la alineacio'n para maximizar puntos.">>],
    [line |-> 555, op |-> "or",
     triggers |-> <<<<"f", "i", "c", "h", "a", "j", "e", "s", " ", "f", "a", "n", "t", "a", "s", "y">>,
                   <<"m", "e", "r", "c", "a", "d", "o", " ", "f", "a", "n", "t", "a", "s", "y">>>>,
     response |-> <<"El mercado de LALIGA Fantasy te permite fichar y vender jugadores segu'n su rendimiento real.">>],
    [line |-> 558, op |-> "or",
     triggers |-> <<<<"g", "i", "l", "b", "e", "r", "t", "o", " ", "m", "o", "r", "a">>>>,
     response |-> <<"Gilberto Mora debuto' en FC 26 como una joven promesa con gran potencial.">>],
    [line |-> 561, op |-> "or",
     triggers |-> <<<<"e", "s", "t", "a", "d", "i", "s", "t", "i", "c", "a", "s", " ", "f", "a", "n", "t", "a", "s", "y">>,
                   <<"p", "u", "n", "t", "o", "s", " ", "f", "a", "n", "t", "a", "s", "y">>>>,
     response |-> <<"Las estadi'sticas de LALIGA Fantasy se basan en el rendimiento real de los jugadores cada jornada.">>],
    [line |-> 564, op |-> "or",
     triggers |-> <<<<"p", "o", "r", "t", "a", "d", "a", " ", "f", "c", " ", "2", "6">>,
                   <<"c", "o", "v", "e", "r", " ", "f", "c", " ", "2", "6">>>>,
     response |-> <<"La portada de FC 26 destaca a jo'venes estrellas como Bellingham y Musiala.">>],
    [line |-> 567, op |-> "or",
     triggers |-> <<<<"v", "e", "n", "t", "a", "s", " ", "f", "c", " ", "2", "6">>,
                   <<"e", "x", "i", "t", "o", " ", "f", "c", " ", "2", "6">>>>,
     response |-> <<"FC 26 arraso' en ventas fi'sicas en Espan~a, liderando el mercado en PS5.">>],
    [line |-> 570, op |-> "or",
     triggers |-> <<<<"j", "u", "g", "a", "b", "i", "l", "i", "d", "a", "d", " ", "f", "c", " ", "2", "6">>,
                   <<"g", "a", "m", "e", "p", "l", "a", "y", " ", "f", "c", " ", "2", "6">>>>,
     response |-> <<"La jugabilidad de FC 26 se refino' gracias a los comentarios de la comunidad.">>],
    [line |-> 573, op |-> "or",
     triggers |-> <<<<"p", "r", "o", "m", "e", "s", "a", "s", " ", "f", "c", " ", "2", "6">>,
                   <<"j", "u", "g", "a", "d", "o", "r", "e", "s", " ", "j", "o", "v", "e", "n", "e", "s", " ", "f", "c", " ", "2", "6">>>>,
     response |-> <<"En FC 26 aparecen jo'venes promesas como Gilberto Mora, con gran potencial de crecimiento.">>],
    [line |-> 576, op |-> "or",
     triggers |-> <<<<"l", "i", "g", "a", " ", "f", "a", "n", "t", "a", "s", "y", " ", "p", "r", "e", "m", "i", "o", "s">>,
                   <<"r", "e", "c", "o", "m", "p", "e", "n", "s", "a", "s", " ", "f", "a", "n", "t", "a", "s", "y">>>>,
     response |-> <<"En LALIGA Fantasy se reparten premios cada jornada segu'n tu rendimiento.">>],
    [line |-> 579, op |-> "or",
     triggers |-> <<<<"l", "i", "g", "a", " ", "f", "a", "n", "t", "a", "s", "y", " ", "p", "r", "e", "m", "i", "u", "m">>,
                   <<"f", "a", "n", "t", "a", "s", "y", " ", "p", "r", "e", "m", "i", "u", "m">>>>,
     response |-> <<"La versio'n premium de LALIGA Fantasy incluye capita'n con doble puntuacio'n, banquillo y entrenador.">>],
    [line |-> 582, op |-> "or",
     triggers |-> <<<<"l", "i", "g", "a", " ", "f", "a", "n", "t", "a", "s", "y", " ", "c", "l", "a", "s", "i", "c", "o">>,
                   <<"e", "v", "e", "n", "t", "o", " ", "c", "l", "a", "s", "i", "c", "o", " ", "f", "a", "n", "t", "a", "s", "y">>>>,
     response |-> <<"En LALIGA Fantasy puedes vivir El Cla'sico con puntuaciones y retos especiales.">>],
    [line |-> 585, op |-> "or",
     triggers |-> <<<<"l", "i", "g", "a", " ", "f", "a", "n", "t", "a", "s", "y", " ", "d", "e", "r", "b", "i">>,
                   <<"e", "v", "e", "n", "t", "o", " ", "d", "e", "r", "b", "i", " ", "f", "a", "n", "t", "a", "s", "y">>>>,
     response |-> <<"Los derbis en LALIGA Fantasy son emocionantes, con bonificaciones y desafi'os u'nicos.">>],
    [line |-> 588, op |-> "or",
     triggers |-> <<<<"l", "i", "g", "a", " ", "f", "a", "n", "t", "a", "s", "y", " ", "f", "i", "c", "h", "a", "j", "e", "s">>,
                   <<"m", "e", "r", "c", "a", "d", "o", " ", "f", "a", "n", "t", "a", "s", "y">>>>,
     response |-> <<"El mercado de LALIGA Fantasy te permite fichar y vender jugadores segu'n su rendimiento real.">>],
    [line |-> 591, op |-> "or",
     triggers |-> <<<<"l", "i", "g", "a", " ", "f", "a", "n", "t", "a", "s", "y", " ", "t", "e", "m", "p", "o", "r", "a", "d", "a">>,
                   <<"f", "a", "n", "t", "a", "s", "y", " ", "2", "5", "/", "2", "6">>>>,
     response |-> <<"La temporada 2025/26 de LALIGA Fantasy incluye fichajes actualizados y nuevas estrellas como Mbappe' y Lamine Yamal.">>],
    [line |-> 594, op |-> "or",
     triggers |-> <<<<"s", "e", "g", "u", "n", "d", "a", " ", "d", "i", "v", "i", "s", "i", "o", "n">>,
                   <<"l", "a", "l", "i", "g", "a", " ", "h", "y", "p", "e", "r", "m", "o", "t", "i", "o", "n">>>>,
     response |-> <<"La Segunda Divisio'n espan~ola, ahora llamada LaLiga Hypermotion, es donde los equipos luchan por subir a Primera.">>],
    [line |-> 597, op |-> "or",
     triggers |-> <<<<"a", "s", "c", "e", "n", "s", "o">>,
                   <<"s", "u", "b", "i", "r", " ", "a", " ", "p", "r", "i", "m", "e", "r", "a">>>>,
     response |-> <<"El ascenso en LaLiga Hypermotion es el suen~o de todos los equipos, con playoffs llenos de emocio'n.">>],
    [line |-> 600, op |-> "or",
     triggers |-> <<<<"d", "e", "s", "c", "e", "n", "s", "o">>,
                   <<"b", "a", "j", "a", "r", " ", "a", " ", "s", "e", "g", "u", "n", "d", "a">>>>,
     response |-> <<"El descenso siempre es duro, pero forma parte de la emocio'n de las ligas espan~olas.">>],
    [line |-> 603, op |-> "or",
     triggers |-> <<<<"p", "l", "a", "y", "o", "f", "f", "s", " ", "s", "e", "g", "u", "n", "d", "a">>,
                   <<"p", "r", "o", "m", "o", "c", "i", "o", "n", " ", "s", "e", "g", "u", "n", "d", "a">>>>,
     response |-> <<"Los playoffs de ascenso en Segunda son partidos de ma'xima tensio'n y emocio'n.">>],
    [line |-> 606, op |-> "or",
     triggers |-> <<<<"l", "i", "g", "a", " ", "f", "e", "m", "e", "n", "i", "n", "a">>,
                   <<"l", "i", "g", "a", " ", "f">>>>,
     response |-> <<"La Liga F es la ma'xima categori'a del fu'tbol femenino en Espan~a, llena de talento y pasio'n.">>],
    [line |-> 609, op |-> "or",
     triggers |-> <<<<"s", "e", "l", "e", "c", "c", "i", "o", "n", " ", "f", "e", "m", "e", "n", "i", "n", "a">>,
                   <<"e", "s", "p", "a", "n", "a", " ", "f", "e", "m", "e", "n", "i", "n", "a">>>>,
     response |-> <<"La seleccio'n femenina de Espan~a es campeona del mundo, un orgullo para el fu'tbol espan~ol.">>],
    [line |-> 612, op |-> "or",
     triggers |-> <<<<"c", "h", "a", "m", "p", "i", "o", "n", "s", " ", "f", "e", "m", "e", "n", "i", "n", "a">>,
                   <<"u", "w", "c", "l">>>>,
     response |-> <<"La Champions femenina es el torneo ma's prestigioso de clubes, donde el Barc,a ha brillado en los u'ltimos an~os, aunque el equipo con ma's champions es el OL Lyonnes.">>],
    [line |-> 615, op |-> "or",
     triggers |-> <<<<"e", "q", "u", "i", "p", "o", "s", " ", "h", "i", "s", "t", "o", "r", "i", "c", "o", "s", " ", "s", "e", "g", "u", "n", "d", "a">>,
                   <<"c", "l", "a", "s", "i", "c", "o", "s", " ", "s", "e", "g", "u", "n", "d", "a">>>>,
     response |-> <<"En Segunda han jugado equipos histo'ricos como Zaragoza, Sporting o Deportivo, con gran tradicio'n.">>],
    [line |-> 618, op |-> "or",
     triggers |-> <<<<"p", "a", "r", "t", "i", "d", "o", "s", " ", "d", "e", " ", "s", "e", "g", "u", "n", "d", "a">>,
                   <<"j", "o", "r", "n", "a", "d", "a", " ", "s", "e", "g", "u", "n", "d", "a">>>>,
     response |-> <<"Cada jornada de LaLiga Hypermotion es clave, porque todos buscan subir o evitar el descenso.">>],
    [line |-> 621, op |-> "or",
     triggers |-> <<<<"f", "u", "t", "s", "a", "l">>,
                   <<"f", "u", "t", "b", "o", "l", " ", "s", "a", "l", "a">>>>,
     response |-> <<"El futsal es fu'tbol en espacio reducido, lleno de te'cnica y velocidad.">>],
    [line |-> 624, op |-> "or",
     triggers |-> <<<<"l", "i", "g", "a", " ", "n", "a", "c", "i", "o", "n", "a", "l", " ", "d", "e", " ", "f", "u", "t", "b", "o", "l", " ", "s", "a", "l", "a">>,
                   <<"l", "n", "f", "s">>>>,
     response |-> <<"La LNFS es la liga ma's importante de futsal en Espan~a, con equipos histo'ricos como Inter Movistar y Barc,a.">>],
    [line |-> 627, op |-> "or",
     triggers |-> <<<<"m", "u", "n", "d", "i", "a", "l", " ", "f", "u", "t", "s", "a", "l">>,
                   <<"c", "o", "p", "a", " ", "d", "e", "l", " ", "m", "u", "n", "d", "o", " ", "f", "u", "t", "s", "a", "l">>>>,
     response |-> <<"El Mundial de futsal reu'ne a las mejores selecciones del mundo en un especta'culo u'nico.">>],
    [line |-> 630, op |-> "or",
     triggers |-> <<<<"s", "e", "l", "e", "c", "c", "i", "o", "n", " ", "e", "s", "p", "a", "n~", "o", "l", "a", " ", "f", "u", "t", "s", "a", "l">>,
                   <<"e", "s", "p", "a", "n", "a", " ", "f", "u", "t", "s", "a", "l">>>>,
     response |-> <<"La seleccio'n espan~ola de futsal es una potencia mundial, con mu'ltiples ti'tulos europeos y mundiales.">>],
    [line |-> 633, op |-> "or",
     triggers |-> <<<<"i", "n", "t", "e", "r", " ", "m", "o", "v", "i", "s", "t", "a", "r">>,
                   <<"m", "o", "v", "i", "s", "t", "a", "r", " ", "i", "n", "t", "e", "r">>>>,
     response |-> <<"Movistar Inter es uno de los clubes ma's exitosos del futsal, con muchos ti'tulos nacionales e internacionales.">>],
    [line |-> 636, op |-> "or",
     triggers |-> <<<<"b", "a", "r", "c,", "a", " ", "f", "u", "t", "s", "a", "l">>,
                   <<"b", "a", "r", "c", "e", "l", "o", "n", "a", " ", "f", "u", "t", "s", "a", "l">>>>,
     response |-> <<"El Barc,a futsal es un referente en Espan~a y Europa, con gran talento en su plantilla.">>],
    [line |-> 639, op |-> "or",
     triggers |-> <<<<"r", "i", "c", "a", "r", "d", "i", "n", "h", "o">>>>,
     response |-> <<"Ricardinho es considerado uno de los mejores jugadores de futsal de la historia, con magia en cada jugada.">>],
    [line |-> 642, op |-> "or",
     triggers |-> <<<<"p", "a", "r", "t", "i", "d", "o", " ", "f", "u", "t", "s", "a", "l">>,
                   <<"j", "o", "r", "n", "a", "d", "a", " ", "f", "u", "t", "s", "a", "l">>>>,
     response |-> <<"Los partidos de futsal son ra'pidos y emocionantes, cada jugada puede terminar en gol.">>],
    [line |-> 645, op |-> "or",
     triggers |-> <<<<"t", "e", "c", "n", "i", "c", "a", " ", "f", "u", "t", "s", "a", "l">>,
                   <<"h", "a", "b", "i", "l", "i", "d", "a", "d", " ", "f", "u", "t", "s", "a", "l">>>>,
     response |-> <<"El futsal destaca por la te'cnica individual, el control del balo'n y las jugadas espectaculares.">>],
    [line |-> 648, op |-> "or",
     triggers |-> <<<<"c", "h", "a", "m", "p", "i", "o", "n", "s", " ", "f", "u", "t", "s", "a", "l">>,
                   <<"u", "e", "f", "a", " ", "f", "u", "t", "s", "a", "l">>>>,
     response |-> <<"La UEFA Futsal Champions League es el torneo ma's prestigioso de clubes en Europa.">>],
    [line |-> 651, op |-> "or",
     triggers |-> <<<<"w", "w", "e">>,
                   <<"l", "u", "c", "h", "a", " ", "l", "i", "b", "r", "e">>>>,
     response |-> <<"Esto no es WWE, pero en el fu'tbol tambie'n hay choques que parecen combates.">>],
    [line |-> 654, op |-> "or",
     triggers |-> <<<<"j", "o", "h", "n", " ", "c", "e", "n", "a">>,
                   <<"t", "h", "e", " ", "r", "o", "c", "k">>>>,
     response |-> <<"John Cena y The Rock son estrellas de WWE, pero en el fu'tbol los i'dolos tambie'n levantan pasiones.">>],
    [line |-> 657, op |-> "or",
     triggers |-> <<<<"u", "n", "d", "e", "r", "t", "a", "k", "e", "r">>>>,
     response |-> <<"El Undertaker dominaba el ring, igual que algunos equipos dominan el campo de fu'tbol.">>],
    [line |-> 660, op |-> "or",
     triggers |-> <<<<"n", "a", "r", "u", "t", "o">>>>,
     response |-> <<"Naruto son~aba con ser Hokage, igual que muchos suen~an con ser campeones de liga.">>],
    [line |-> 663, op |-> "or",
     triggers |-> <<<<"s", "a", "s", "u", "k", "e">>>>,
     response |-> <<"Sasuke buscaba poder, como un delantero que siempre quiere marcar ma's goles.">>],
    [line |-> 666, op |-> "or",
     triggers |-> <<<<"k", "a", "m", "e", "h", "a", "m", "e", "h", "a">>,
                   <<"r", "a", "s", "e", "n", "g", "a", "n">>>>,
     response |-> <<"Eso suena ma's a anime, pero en el fu'tbol tambie'n hay tiros que parecen poderes especiales.">>],
    [line |-> 669, op |-> "or",
     triggers |-> <<<<"u", "c", "h", "i", "h", "a">>,
                   <<"s", "h", "a", "r", "i", "n", "g", "a", "n">>>>,
     response |-> <<"El Sharingan todo lo ve, como un buen mediocentro que controla el partido.">>],
    [line |-> 672, op |-> "or",
     triggers |-> <<<<"w", "r", "e", "s", "t", "l", "e", "m", "a", "n", "i", "a">>>>,
     response |-> <<"WrestleMania es el gran evento de WWE, como una final de Champions en el fu'tbol.">>],
    [line |-> 675, op |-> "or",
     triggers |-> <<<<"a", "n", "i", "m", "e">>,
                   <<"m", "a", "n", "g", "a">>>>,
     response |-> <<"El anime tiene batallas e'picas, igual que el fu'tbol tiene partidos inolvidables.">>],
    [line |-> 678, op |-> "or",
     triggers |-> <<<<"h", "o", "k", "a", "g", "e">>>>,
     response |-> <<"Ser Hokage en Naruto es como levantar la Copa del Mundo en fu'tbol: el ma'ximo suen~o.">>],
    [line |-> 681, op |-> "or",
     triggers |-> <<<<"t", "r", "i", "p", "l", "e", " ", "h">>,
                   <<"p", "e", "d", "i", "g", "r", "e", "e">>>>,
     response |-> <<"El 'Pedigree' de Triple H es letal en WWE, como un golazo en el u'ltimo minuto.">>],
    [line |-> 684, op |-> "or",
     triggers |-> <<<<"r", "e", "y", " ", "m", "y", "s", "t", "e", "r", "i", "o">>,
                   <<"6", "1", "9">>>>,
     response |-> <<"El 619 de Rey Mysterio es pura agilidad, igual que un regate ele'ctrico en fu'tbol.">>],
    [line |-> 687, op |-> "or",
     triggers |-> <<<<"r", "o", "m", "a", "n", " ", "r", "e", "i", "g", "n", "s">>,
                   <<"j", "e", "f", "e", " ", "t", "r", "i", "b", "a", "l">>>>,
     response |-> <<"Roman Reigns domina WWE como un capita'n que manda en el vestuario de fu'tbol.">>],
    [line |-> 690, op |-> "or",
     triggers |-> <<<<"n", "a", "r", "u", "t", "o", " ", "v", "s", " ", "s", "a", "s", "u", "k", "e">>>>,
     response |-> <<"Naruto vs Sasuke es como un Cla'sico Barc,a-Madrid: rivalidad eterna y llena de emocio'n.">>],
    [line |-> 693, op |-> "or",
     triggers |-> <<<<"i", "t", "a", "c", "h", "i">>,
                   <<"u", "c", "h", "i", "h", "a">>>>,
     response |-> <<"Itachi vei'a todo con el Sharingan, como un mediocentro que controla el ritmo del partido.">>],
    [line |-> 696, op |-> "or",
     triggers |-> <<<<"m", "a", "d", "a", "r", "a">>>>,
     response |-> <<"Madara Uchiha era imparable, como un delantero que no deja de marcar goles.">>],
    [line |-> 699, op |-> "or",
     triggers |-> <<<<"j", "i", "r", "a", "i", "y", "a">>,
                   <<"s", "a", "b", "i", "o">>>>,
     response |-> <<"Jiraiya ensen~aba a Naruto, igual que un buen entrenador gui'a a su equipo.">>],
    [line |-> 702, op |-> "or",
     triggers |-> <<<<"w", "r", "e", "s", "t", "l", "e", "m", "a", "n", "i", "a">>>>,
     response |-> <<"WrestleMania es el evento ma'ximo de WWE, como una final de Champions en fu'tbol.">>],
    [line |-> 705, op |-> "or",
     triggers |-> <<<<"h", "o", "k", "a", "g", "e">>>>,
     response |-> <<"Ser Hokage en Naruto es como levantar la Copa del Mundo: el suen~o ma's grande.">>],
    [line |-> 708, op |-> "or",
     triggers |-> <<<<"j", "u", "t", "s", "u">>,
                   <<"t", "e", "c", "n", "i", "c", "a", " ", "n", "i", "n", "j", "a">>>>,
     response |-> <<"Los jutsus en Naruto son como las jugadas ensayadas en fu'tbol: pura estrategia y sorpresa.">>],
    [line |-> 711, op |-> "or",
     triggers |-> <<<<"b", "r", "o", "c", "k", " ", "l", "e", "s", "n", "a", "r">>,
                   <<"s", "u", "p", "l", "e", "x">>>>,
     response |-> <<"Brock Lesnar haci'a suplex en WWE, como un defensa que despeja con fuerza cada balo'n.">>],
    [line |-> 714, op |-> "or",
     triggers |-> <<<<"r", "a", "n", "d", "y", " ", "o", "r", "t", "o", "n">>,
                   <<"r", "k", "o">>>>,
     response |-> <<"El RKO de Randy Orton es inesperado, como un gol de chilena en el u'ltimo minuto.">>],
    [line |-> 717, op |-> "or",
     triggers |-> <<<<"k", "a", "n", "e">>,
                   <<"d", "e", "m", "o", "n", "i", "o", " ", "r", "o", "j", "o">>>>,
     response |-> <<"Kane imponi'a respeto en WWE, igual que un portero que intimida a los delanteros.">>],
    [line |-> 720, op |-> "or",
     triggers |-> <<<<"n", "a", "r", "u", "t", "o", " ", "r", "u", "n">>,
                   <<"c", "o", "r", "r", "e", "r", " ", "c", "o", "m", "o", " ", "n", "a", "r", "u", "t", "o">>>>,
     response |-> <<"Correr como Naruto es como un extremo desbordando por la banda con velocidad imparable.">>],
    [line |-> 723, op |-> "or",
     triggers |-> <<<<"g", "a", "a", "r", "a">>,
                   <<"a", "r", "e", "n", "a">>>>,
     response |-> <<"Gaara controlaba la arena, como un mediocentro que controla el ritmo del partido.">>],
    [line |-> 726, op |-> "or",
     triggers |-> <<<<"r", "o", "c", "k", " ", "l", "e", "e">>,
                   <<"t", "a", "i", "j", "u", "t", "s", "u">>>>,
     response |-> <<"Rock Lee entrenaba sin descanso, como un jugador que nunca se rinde en el campo.">>],
    [line |-> 729, op |-> "or",
     triggers |-> <<<<"o", "r", "o", "c", "h", "i", "m", "a", "r", "u">>,
                   <<"s", "e", "r", "p", "i", "e", "n", "t", "e">>>>,
     response |-> <<"Orochimaru era astuto y peligroso, como un delantero que aparece donde menos lo esperas.">>],
    [line |-> 732, op |-> "or",
     triggers |-> <<<<"n", "a", "r", "u", "t", "o", " ", "s", "h", "i", "p", "p", "u", "d", "e", "n">>,
                   <<"s", "h", "i", "p", "p", "u", "d", "e", "n">>>>,
     response |-> <<"Naruto Shippuden mostro' batallas e'picas, como las finales de Champions en fu'tbol.">>],
    [line |-> 735, op |-> "or",
     triggers |-> <<<<"c", "a", "m", "p", "e", "o", "n", " ", "w", "w", "e">>,
                   <<"t", "i", "t", "u", "l", "o", " ", "w", "w", "e">>>>,
     response |-> <<"Ser campeo'n en WWE es como levantar la Copa del Mundo en fu'tbol: gloria absoluta.">>],
    [line |-> 738, op |-> "or",
     triggers |-> <<<<"a", "k", "a", "t", "s", "u", "k", "i">>,
                   <<"v", "i", "l", "l", "a", "n", "o", "s", " ", "n", "a", "r", "u", "t", "o">>>>,
     response |-> <<"La Akatsuki era temida en Naruto, como un equipo rival que nadie quiere enfrentar.">>],
    [line |-> 741, op |-> "or",
     triggers |-> <<<<"h", "a", "k", "u">>>>,
     response |-> <<"Haku dominaba el hielo en Naruto, como un portero que congela cada intento de gol.">>],
    [line |-> 744, op |-> "or",
     triggers |-> <<<<"s", "t", "e", "p", "h", "a", "n", "i", "e", " ", "v", "a", "q", "u", "e", "r">>>>,
     response |-> <<"Stephanie Vaquer, 'La Primera', como la hinchada que abre el camino y nunca deja de alentar.">>],
    [line |-> 747, op |-> "or",
     triggers |-> <<<<"r", "h", "e", "a", " ", "r", "i", "p", "l", "e", "y">>>>,
     response |-> <<"Rhea Ripley juega con Brutalidad, como un mediocentro que barre todo lo que pasa por su zona.">>],
    [line |-> 750, op |-> "or",
     triggers |-> <<<<"d", "o", "m", "i", "n", "i", "k", " ", "m", "y", "s", "t", "e", "r", "i", "o">>>>,
     response |-> <<"El sucio Dom, el gineco'logo del ring, es como ese equipo que siempre hace trampas para ganar.">>],
    [line |-> 753, op |-> "or",
     triggers |-> <<<<"t", "e", "n", "t", "e", "n">>>>,
     response |-> <<"Tenten dominaba las armas ninja, como un jugador que domina todas las posiciones en el campo.">>],
    [line |-> 756, op |-> "or",
     triggers |-> <<<<"b", "r", "o", "n", " ", "b", "r", "e", "a", "k", "k", "e", "r">>>>,
     response |-> <<"Bron Breakker es pura fuerza en WWE, como un delantero tanque que arrasa defensas.">>],
    [line |-> 759, op |-> "or",
     triggers |-> <<<<"j", "e", "y", " ", "u", "s", "o">>,
                   <<"u", "s", "o">>>>,
     response |-> <<"Four letters, one word, YEET!">>],
    [line |-> 762, op |-> "or",
     triggers |-> <<<<"c", "h", "e", "l", "s", "e", "a", " ", "g", "r", "e", "e", "n">>>>,
     response |-> <<"Chelsea Green destaca en WWE, como una jugadora que siempre sorprende con su estilo.">>],
    [line |-> 765, op |-> "or",
     triggers |-> <<<<"k", "i", "b", "a">>,
                   <<"a", "k", "a", "m", "a", "r", "u">>>>,
     response |-> <<"Kiba y Akamaru eran inseparables, como un du'o de delanteros que siempre juegan en pareja.">>],
    [line |-> 768, op |-> "or",
     triggers |-> <<<<"s", "h", "e", "a", "m", "u", "s">>,
                   <<"b", "r", "o", "g", "u", "e", " ", "k", "i", "c", "k">>>>,
     response |-> <<"El Brogue Kick de Sheamus es devastador, como un disparo de fuera del a'rea que rompe la red.">>],
    [line |-> 771, op |-> "or",
     triggers |-> <<<<"i", "t", "a", "c", "h", "i", " ", "s", "a", "c", "r", "i", "f", "i", "c", "i", "o">>,
                   <<"i", "t", "a", "c", "h", "i", " ", "h", "e", "r", "m", "a", "n", "o">>>>,
     response |-> <<"El sacrificio de Itachi por Sasuke es como un capita'n que da todo por su equipo.">>],
    [line |-> 774, op |-> "or",
     triggers |-> <<<<"i", "t", "a", "c", "h", "i", " ", "g", "e", "n", "j", "u", "t", "s", "u">>,
                   <<"g", "e", "n", "j", "u", "t", "s", "u">>>>,
     response |-> <<"El genjutsu de Itachi confundi'a rivales, como una jugada ta'ctica que descoloca a la defensa.">>]
>>

\* a plausible slip: every entry read as a disjunction
Fires_anyTrigger(e, qq) ==
    \E i \in 1..Len(e.triggers) : Contains(qq, e.triggers[i])

\* whether entry e's condition holds on the normalized question qq
Fires(e, qq) ==
    IF e.op = "and"
    THEN \A i \in 1..Len(e.triggers) : Contains(qq, e.triggers[i])
    ELSE \E i \in 1..Len(e.triggers) : Contains(qq, e.triggers[i])

\* a plausible slip: the last entry that fires wins
get_smalltalk_lastMatch(quest) ==
    LET qq == normalize(quest)
        hits == {i \in 1..Len(SMALLTALK) : Fires(SMALLTALK[i], qq)}
    IN  IF hits = {} THEN None
        ELSE Str(SMALLTALK[CHOOSE i \in hits : \A j \in hits : j <= i].response)

\* get_smalltalk(question), chatbot.py:148-777
get_smalltalk(quest) ==
    LET qq == normalize(quest)
        hits == {i \in 1..Len(SMALLTALK) : Fires(SMALLTALK[i], qq)}
    IN  IF hits = {} THEN None
        ELSE Str(SMALLTALK[CHOOSE i \in hits : \A j \in hits : i <= j].response)

----------------------------------------------------------------------------
(* The structured fact matchers *)

\* the first of the row indices hits (0: none): `for r in rows: if ...: return`
FirstRow(hits) ==
    IF hits = {} THEN 0 ELSE CHOOSE i \in hits : \A j \in hits : i <= j

\* str(b) of a bool inside an f-string
BoolStr(b) == IF b THEN "True" ELSE "False"

\* get_competition_info(question), chatbot.py:793-800
get_competition_info(quest, d) ==
    LET qq == Lower(quest)
        i == FirstRow({k \in 1..Len(d.competitions) : LET r == d.competitions[k] IN Contains(qq, Lower(r.name))})
        comp == d.competitions[i]
    IN  IF i = 0 THEN None
        ELSE Str(<<"La competicio'n ">> \o comp.name \o <<" (temporada ">>
                 \o comp.season \o <<"), tipo ">> \o comp.type \o <<", ge'nero ">>
                 \o comp.gender \o <<", activa: ", BoolStr(comp.active), ".">>)

\* get_information_team_info(question), chatbot.py:802-809
get_information_team_info(quest, d) ==
    LET qq == Lower(quest)
        i == FirstRow({k \in 1..Len(d.information_team) : LET r == d.information_team[k] IN Contains(qq, Lower(r.name))})
        team == d.information_team[i]
    IN  IF i = 0 THEN None
        ELSE Str(<<"El equipo ">> \o team.name \o <<" esta' en ">> \o team.city
                 \o <<" (">> \o team.province \o <<"), presidente ">>
                 \o team.president \o <<", fundado en ", ToString(team.founded_year),
                 ", estadio ">> \o team.stadium \o <<".">>)

\* get_player_info(question), chatbot.py:811-821
get_player_info(quest, d) ==
    LET qq == Lower(quest)
        i == FirstRow({k \in 1..Len(d.players) : LET r == d.players[k] IN Contains(qq, Lower(r.name))})
        player == d.players[i]
        team == Eq(d.teams, "id", player.team_id)
        team_name == IF team # <<>> THEN team[1].name ELSE Desconocido
    IN  IF i = 0 THEN None
        ELSE Str(player.name \o <<" juega como ">> \o player.position
                 \o <<", dorsal ", ToString(player.jersey_number), ", nacionalidad ">>
                 \o player.nationality \o <<", altura ", ToString(player.height),
                 "m, peso ", ToString(player.weight), "kg, equipo ">>
                 \o team_name \o <<".">>)

\* get_referee_info(question), chatbot.py:823-829
get_referee_info(quest, d) ==
    LET qq == Lower(quest)
        i == FirstRow({k \in 1..Len(d.referees) : LET r == d.referees[k] IN Contains(qq, Lower(r.name))})
        ref == d.referees[i]
    IN  IF i = 0 THEN None
        ELSE Str(<<"A'rbitro ">> \o ref.name \o <<", nacionalidad ">>
                 \o ref.nationality \o <<", debut ">> \o ref.debut \o <<".">>)

\* ref_name of chatbot.py:835-836 for one referee_stats row
RefName(stat, d) ==
    LET ref == Eq(d.referees, "id", stat.referee_id)
    IN  IF ref # <<>> THEN ref[1].name ELSE Desconocido

\* get_referee_stats_info(question), chatbot.py:831-840
get_referee_stats_info(quest, d) ==
    LET qq == Lower(quest)
        i == FirstRow({k \in 1..Len(d.referee_stats) : LET r == d.referee_stats[k] IN Contains(qq, Lower(RefName(r, d)))})
        stat == d.referee_stats[i]
    IN  IF i = 0 THEN None
        ELSE Str(<<"Estadi'sticas de ">> \o RefName(stat, d)
                 \o <<": amarillas ", ToString(stat.yellow_cards),
                      ", rojas ", ToString(stat.red_cards),
                      ", victorias ", ToString(stat.wins),
                      ", empates ", ToString(stat.draws),
                      ", derrotas ", ToString(stat.defeats), ".">>)

\* get_stadium_info(question), chatbot.py:842-849
get_stadium_info(quest, d) ==
    LET qq == Lower(quest)
        i == FirstRow({k \in 1..Len(d.stadiums) : LET r == d.stadiums[k] IN Contains(qq, Lower(r.name))})
        stadium == d.stadiums[i]
    IN  IF i = 0 THEN None
        ELSE Str(<<"El estadio ">> \o stadium.name \o <<" esta' en ">>
                 \o stadium.city \o <<", capacidad ", ToString(stadium.capacity),
                 ", construido en ", ToString(stadium.year_construction), ".">>)

\* get_team_by_stadium(question), chatbot.py:851-861
get_team_by_stadium(quest, d) ==
    LET qq == normalize(quest)
        i == FirstRow({k \in 1..Len(d.stadiums) : LET r == d.stadiums[k] IN Contains(qq, normalize(r.name))})
        stadium == d.stadiums[i]
        team == Eq(d.teams, "stadium_id", stadium.id)
    IN  IF i = 0 THEN None
        ELSE IF team # <<>>
             THEN Str(<<"El equipo que juega en ">> \o stadium.name \o <<" es ">>
                      \o team[1].name \o <<".">>)
             ELSE Str(<<"No se encuentra equipo asociado al estadio ">>
                      \o stadium.name \o <<".">>)

\* player_name of chatbot.py:868-869 for one stats row
PlayerName(stat, d) ==
    LET player == Eq(d.players, "id", stat.player_id)
    IN  IF player # <<>> THEN player[1].name ELSE Desconocido

\* get_player_stats(question), chatbot.py:864-873
get_player_stats(quest, d) ==
    LET qq == Lower(quest)
        i == FirstRow({k \in 1..Len(d.stats) : LET r == d.stats[k] IN Contains(qq, Lower(PlayerName(r, d)))})
        stat == d.stats[i]
    IN  IF i = 0 THEN None
        ELSE Str(<<"Estadi'sticas de ">> \o PlayerName(stat, d)
                 \o <<": goles ", ToString(stat.goals),
                      ", asistencias ", ToString(stat.assists),
                      ", partidos ", ToString(stat.games_played),
                      ", amarillas ", ToString(stat.yellow_card),
                      ", rojas ", ToString(stat.red_card), ".">>)

\* get_team_info(question), chatbot.py:875-884
get_team_info(quest, d) ==
    LET qq == normalize(quest)
        i == FirstRow({k \in 1..Len(d.teams) : LET r == d.teams[k] IN Contains(qq, normalize(r.name))})
        team == d.teams[i]
        stadium == Eq(d.stadiums, "id", team.stadium_id)
        stadium_name == IF stadium # <<>> THEN stadium[1].name ELSE Desconocido
    IN  IF i = 0 THEN None
        ELSE Str(<<"Equipo ">> \o team.name \o <<" de ">> \o team.city \o <<" (">>
                 \o team.province \o <<"), fundado en ", ToString(team.founded_year),
                 ", estadio ">> \o stadium_name \o <<".">>)

\* get_team_city(question), chatbot.py:886-892
get_team_city(quest, d) ==
    LET qq == normalize(quest)
        i == FirstRow({k \in 1..Len(d.teams) : LET r == d.teams[k] IN Contains(qq, normalize(r.name))
                                          /\ Contains(qq, <<"c", "i", "u", "d", "a", "d">>)})
        team == d.teams[i]
    IN  IF i = 0 THEN None
        ELSE Str(<<"El ">> \o team.name \o <<" esta' en la ciudad de ">>
                 \o team.city \o <<".">>)

----------------------------------------------------------------------------
(* Similarity scores *)
(* A float score is kept in fixed point, as the integer number of          *)
(* hundred-thousandths (ScoreOne is 1.0), truncated toward zero.           *)

ScoreOne == 100000

RECURSIVE ISqrtIn(_, _, _)
\* the integer square root of n, searched in lo..hi
ISqrtIn(n, lo, hi) ==
    IF lo >= hi THEN lo
    ELSE LET mid == (lo + hi + 1) \div 2
         IN  IF mid * mid <= n THEN ISqrtIn(n, mid, hi) ELSE ISqrtIn(n, lo, mid - 1)

\* floor(sqrt(n)) for 0 <= n < 2^31
ISqrt(n) == ISqrtIn(n, 0, 46340)

RECURSIVE SumTo(_, _)
\* sum(f[1..n])
SumTo(f, n) == IF n = 0 THEN 0 ELSE f[n] + SumTo(f, n - 1)

\* sum(x*y for x, y in zip(a, b)): zip stops at the shorter list
Dot(a, b) ==
    LET n == IF Len(a) <= Len(b) THEN Len(a) ELSE Len(b)
    IN  SumTo([i \in 1..n |-> a[i] * b[i]], n)

\* cosine_similarity(a, b), chatbot.py:54-58, in fixed point.  A zero vector
\* has its norm floored at 1e-10 and its dot product is 0, so the quotient is 0.
cosine_similarity(a, b) ==
    LET dot == Dot(a, b)
        p == Dot(a, a) * Dot(b, b)
        abs == IF dot < 0 THEN -dot ELSE dot
        r == ISqrt(p * 1000000)                 \* 1000 * na * nb
        whole == (abs * 1000000) \div r
        rest == (abs * 1000000) % r
        m == whole * 100 + (rest * 100) \div r  \* 100000 * |dot| / (na * nb)
    IN  IF p = 0 THEN 0 ELSE IF dot < 0 THEN -m ELSE m

\* round(x, 4) on a fixed-point score
Round4(x) ==
    IF x >= 0 THEN 10 * ((x + 5) \div 10) ELSE -(10 * ((5 - x) \div 10))

----------------------------------------------------------------------------
(* Retrieval and synthesis *)

\* an embedding column value: a list of numbers, a list holding something
\* that is no number, or no list at all (null)
Vec(v) == [list |-> TRUE, numeric |-> TRUE, v |-> v]
BadVec(v) == [list |-> TRUE, numeric |-> FALSE, v |-> v]
NoVec == [list |-> FALSE, numeric |-> FALSE, v |-> <<>>]

\* the guard of chatbot.py:67: the row is skipped
Skipped(emb) == ~emb.list \/ Len(emb.v) = 0

\* cosine_similarity raises inside the try of chatbot.py:69-75
SimRaises(qvec, emb) == ~emb.numeric /\ Len(qvec) > 0

\* the row with r["_score"] = sim, chatbot.py:72
WithScore(r, sim) == ("_score" :> sim) @@ r

\* a plausible slip: the threshold test dropped
Scored_noThreshold(qvec, rows, threshold) ==
    LET keep(r) == ~Skipped(r.embedding) /\ ~SimRaises(qvec, r.embedding)
        kept == SelectSeq(rows, keep)
    IN  [i \in 1..Len(kept) |->
            WithScore(kept[i], cosine_similarity(qvec, kept[i].embedding.v))]

\* the list `scored` after the loop of chatbot.py:65-75
Scored(qvec, rows, threshold) ==
    LET keep(r) == /\ ~Skipped(r.embedding)
                   /\ ~SimRaises(qvec, r.embedding)
                   /\ cosine_similarity(qvec, r.embedding.v) >= threshold
        kept == SelectSeq(rows, keep)
    IN  [i \in 1..Len(kept) |->
            WithScore(kept[i], cosine_similarity(qvec, kept[i].embedding.v))]

\* a plausible slip: the list returned unsorted
SortDesc_unsorted(s) == s

RECURSIVE SortDesc(_)
\* list.sort(key=_score, reverse=True): stable, equal scores keep their order
SortDesc(s) ==
    IF s = <<>> THEN <<>>
    ELSE LET best == CHOOSE i \in 1..Len(s) :
                        /\ \A j \in 1..Len(s) : s[j]._score <= s[i]._score
                        /\ \A j \in 1..(i - 1) : s[j]._score < s[i]._score
             others == [j \in 1..(Len(s) - 1) |-> IF j < best THEN s[j] ELSE s[j + 1]]
         IN  <<s[best]>> \o SortDesc(others)

\* s[:k] for k >= 0
Prefix(s, k) == SubSeq(s, 1, IF k <= Len(s) THEN k ELSE Len(s))

\* retrieve_context(question, k, threshold), chatbot.py:60-77; qvec is the
\* embedding model's vector for the question and rows the corpus fetched
retrieve_context(qvec, rows, k, threshold) ==
    Prefix(SortDesc(Scored(qvec, rows, threshold)), k)

\* the defaults of chatbot.py:60
DefaultK == 5
DefaultThreshold == 70000

\* the part of s before the first occurrence of character c: s.split(c)[0]
BeforeFirst(s, c) ==
    LET hits == {i \in 1..Len(s) : s[i] = c}
    IN  IF hits = {} THEN s
        ELSE SubSeq(s, 1, (CHOOSE i \in hits : \A j \in hits : i <= j) - 1)

NoDataPrecise == <<"No hay datos suficientes en la BBDD para responder con precisio'n.">>
NotFound == <<"No se encuentra informacio'n en la base de datos.">>

\* a plausible slip: the last emptiness test of chatbot.py:99-100 left out
generate_answer_noFinalCheck(quest, cs) ==
    LET i == FirstRow({k \in 1..Len(cs) : LET c == cs[k] IN c.content # <<>>})
        text == Strip(cs[i].content)
        line == Strip(BeforeFirst(text, "\n"))
        candidate == IF "." \in {line[j] : j \in 1..Len(line)}
                     THEN Strip(BeforeFirst(line, ".")) \o <<".">>
                     ELSE line
    IN  IF cs = <<>> THEN NoDataPrecise
        ELSE IF i = 0 THEN NotFound
        ELSE IF candidate = <<>> \/ Len(candidate) < 10
             THEN IF Len(text) > 200
                  THEN SubSeq(text, 1, 200) \o <<".", ".", ".">>
                  ELSE text
        ELSE candidate

\* a plausible slip: the first chunk taken whatever its content
generate_answer_firstChunk(quest, cs) ==
    LET text == Strip(cs[1].content)
        line == Strip(BeforeFirst(text, "\n"))
        candidate == IF "." \in {line[j] : j \in 1..Len(line)}
                     THEN Strip(BeforeFirst(line, ".")) \o <<".">>
                     ELSE line
        final == IF candidate = <<>> \/ Len(candidate) < 10
                 THEN IF Len(text) > 200
                      THEN SubSeq(text, 1, 200) \o <<".", ".", ".">>
                      ELSE text
                 ELSE candidate
    IN  IF cs = <<>> THEN NoDataPrecise
        ELSE IF cs[1].content = <<>> THEN NotFound
        ELSE IF final = <<>> \/ Strip(final) = <<>> THEN NotFound
        ELSE final

\* a plausible slip: a candidate of exactly 10 characters taken as short
generate_answer_shortAtTen(quest, cs) ==
    LET i == FirstRow({k \in 1..Len(cs) : LET c == cs[k] IN c.content # <<>>})
        text == Strip(cs[i].content)
        line == Strip(BeforeFirst(text, "\n"))
        candidate == IF "." \in {line[j] : j \in 1..Len(line)}
                     THEN Strip(BeforeFirst(line, ".")) \o <<".">>
                     ELSE line
        final == IF candidate = <<>> \/ Len(candidate) <= 10
                 THEN IF Len(text) > 200
                      THEN SubSeq(text, 1, 200) \o <<".", ".", ".">>
                      ELSE text
                 ELSE candidate
    IN  IF cs = <<>> THEN NoDataPrecise
        ELSE IF i = 0 THEN NotFound
        ELSE IF final = <<>> \/ Strip(final) = <<>> THEN NotFound
        ELSE final

\* generate_answer(question, chunks), chatbot.py:79-101
generate_answer(quest, cs) ==
    LET i == FirstRow({k \in 1..Len(cs) : LET c == cs[k] IN c.content # <<>>})
        text == Strip(cs[i].content)
        line == Strip(BeforeFirst(text, "\n"))
        candidate == IF "." \in {line[j] : j \in 1..Len(line)}
                     THEN Strip(BeforeFirst(line, ".")) \o <<".">>
                     ELSE line
        final == IF candidate = <<>> \/ Len(candidate) < 10
                 THEN IF Len(text) > 200
                      THEN SubSeq(text, 1, 200) \o <<".", ".", ".">>
                      ELSE text
                 ELSE candidate
    IN  IF cs = <<>> THEN NoDataPrecise
        ELSE IF i = 0 THEN NotFound
        ELSE IF final = <<>> \/ Strip(final) = <<>> THEN NotFound
        ELSE final

\* a plausible slip: only the best chunk cited
Sources_topOnly(cs) ==
    [i \in 1..1 |-> [table |-> cs[i].source_table,
                     id |-> cs[i].source_id,
                     score |-> Round4(cs[i]._score)]]

\* the sources list of chatbot.py:944-951
Sources(cs) ==
    [i \in 1..Len(cs) |-> [table |-> cs[i].source_table,
                           id |-> cs[i].source_id,
                           score |-> Round4(cs[i]._score)]]

----------------------------------------------------------------------------
(* Store contents and questions the model draws from *)

\* a row of the stats table: every counter 0 but those given
StatsRow(pid, games, goals) ==
    [c \in {"player_id"} \cup StatsCounters |->
        CASE c = "player_id" -> pid
          [] c = "games_played" -> games
          [] c = "goals" -> goals
          [] OTHER -> 0]

\* a row of the referee_stats table: every counter 0 but wins
RefereeStatsRow(rid, wins) ==
    [c \in {"referee_id"} \cup RefereeCounters |->
        CASE c = "referee_id" -> rid [] c = "wins" -> wins [] OTHER -> 0]

PlayerRow(id, name, team_id) ==
    [id |-> id, name |-> name, nationality |-> <<"Argentina">>,
     position |-> <<"delantero">>, jersey_number |-> 10, height |-> 2,
     weight |-> 70, team_id |-> team_id]

TeamRow(id, name, stadium_id) ==
    [id |-> id, name |-> name, city |-> <<"Sevilla">>, province |-> <<"Sevilla">>,
     founded_year |-> 1907, stadium_id |-> stadium_id]

StadiumRow(id, name, capacity) ==
    [id |-> id, name |-> name, city |-> <<"Barcelona">>, capacity |-> capacity,
     year_construction |-> 1957]

RefereeRow(id, name) ==
    [id |-> id, name |-> name, nationality |-> <<"Espan~a">>, debut |-> <<"2010-01-01">>]

CompetitionRow(id, name) ==
    [id |-> id, name |-> name, season |-> <<"2024">>, type |-> <<"liga">>,
     gender |-> <<"M">>, active |-> TRUE]

InformationTeamRow(id, name) ==
    [id |-> id, name |-> name, city |-> <<"Vigo">>, province |-> <<"Pontevedra">>,
     president |-> <<"presidente">>, founded_year |-> 1923, stadium |-> <<"Balai'dos">>]

\* a row of document_embeddings
DocRow(id, content, emb) ==
    [id |-> id, source_table |-> "players", source_id |-> id, content |-> content,
     embedding |-> emb]

Leo == <<"L", "e", "o">>
Penya == <<"P", "e", "n~", "a">>
Betis == <<"B", "e", "t", "i", "s">>
Cadiz == <<"C", "a'", "d", "i", "z">>
Nou == <<"N", "o", "u">>
Rio == <<"R", "i'", "o">>
Gil == <<"G", "i", "l">>
Liga == <<"L", "i", "g", "a">>
Celta == <<"C", "e", "l", "t", "a">>
MessiText ==
    <<"M", "e", "s", "s", "i", " ", "g", "a", "n", "o'", " ", "e", "l", " ", "B", "a", "l", "o'", "n", " ", "d", "e", " ", "O", "r", "o", ".", " ", "F", "u", "e", " ", "u", "n", " ", "a", "n~", "o", " ", "h", "i", "s", "t", "o'", "r", "i", "c", "o", ".">>
GolText == <<"G", "o", "l", ".">>

EmptyDb ==
    [players |-> <<>>, teams |-> <<>>, stadiums |-> <<>>, referees |-> <<>>,
     referee_stats |-> <<>>, stats |-> <<>>, competitions |-> <<>>,
     information_team |-> <<>>, document_embeddings |-> <<>>]

\* a populated store: player 7, referee 7 and stadium 7 are referenced but absent
FullDb ==
    [players |-> <<PlayerRow(1, Leo, 1), PlayerRow(2, Penya, 7)>>,
     teams |-> <<TeamRow(1, Betis, 1), TeamRow(2, Cadiz, 7)>>,
     stadiums |-> <<StadiumRow(1, Nou, 5), StadiumRow(2, Rio, 9)>>,
     referees |-> <<RefereeRow(1, Gil)>>,
     referee_stats |-> <<RefereeStatsRow(1, 3), RefereeStatsRow(7, 4)>>,
     stats |-> <<StatsRow(1, 4, 2), StatsRow(7, 1, 3)>>,
     competitions |-> <<CompetitionRow(1, Liga)>>,
     information_team |-> <<InformationTeamRow(1, Celta)>>,
     document_embeddings |->
        <<DocRow(1, <<>>, Vec(<<1, 1>>)), DocRow(2, MessiText, NoVec),
          DocRow(3, MessiText, Vec(<<1, 0>>)), DocRow(4, GolText, Vec(<<2, 1>>)),
          DocRow(5, <<" ">>, Vec(<<0, 1>>))>>]

Tables == DOMAIN EmptyDb

\* the stores of the model: each table either empty or populated
Stores == {[t \in Tables |-> IF t \in full THEN FullDb[t] ELSE EmptyDb[t]] :
             full \in SUBSET Tables}

\* the questions of the model
Questions == {
    <<"M", "a'", "s", " ", "g", "o", "l", "e", "s">>,
    <<"c", "a", "p", "a", "c", "i", "d", "a", "d", " ", "e", "s", "t", "a", "d", "i", "o">>,
    <<"h", "o", "l", "a", ",", " ", "c", "o", "m", "o", " ", "e", "s", "t", "a", "s">>,
    <<"h", "o", "l", "a", " ", "l", "e", "o">>,
    <<"l", "i", "g", "a">>,
    <<"c", "e", "l", "t", "a">>,
    <<"l", "e", "o">>,
    <<"g", "i", "l">>,
    <<"n", "o", "u">>,
    <<"r", "i'", "o">>,
    <<"c", "i", "u", "d", "a", "d", " ", "b", "e", "t", "i", "s">>,
    <<"d", "e", "s", "c", "o", "n", "o", "c", "i", "d", "o">>,
    <<"V", "i", "c", "t", "o", "r", "i", "a", "s", " ", "a'", "r", "b", "i", "t", "r", "o">>,
    <<"T", "a", "r", "j", "e", "t", "a", "s", " ", "a", "m", "a", "r", "i", "l", "l", "a", "s", " ", "a'", "r", "b", "i", "t", "r", "o">>,
    <<"p", "o", "r", "t", "e", "r", "i'", "a", "s", " ", "a", " ", "c", "e", "r", "o">>,
    <<"x", "y", "z">> }

\* the vectors the embedding model may give for a question
QVecs == {<<1, 0>>, <<0, 1>>, <<1, 1>>, <<-1, 0>>}

----------------------------------------------------------------------------
(* The orchestrator: chat, chatbot.py:909-955 *)

\* a plausible slip: the statistics matchers listed before the entity matchers
FUNCS_statsFirst ==
    <<"get_competition_info", "get_information_team_info", "get_player_stats",
      "get_referee_stats_info", "get_player_info", "get_referee_info",
      "get_stadium_info", "get_team_by_stadium", "get_team_info", "get_team_city">>

\* a plausible slip: get_team_city tried before get_team_info
FUNCS_cityFirst ==
    <<"get_competition_info", "get_information_team_info", "get_player_info",
      "get_referee_info", "get_referee_stats_info", "get_stadium_info",
      "get_team_by_stadium", "get_player_stats", "get_team_city", "get_team_info">>

\* a plausible slip: get_referee_stats_info tried before get_referee_info
FUNCS_refereeStatsFirst ==
    <<"get_competition_info", "get_information_team_info", "get_player_info",
      "get_referee_stats_info", "get_referee_info", "get_stadium_info",
      "get_team_by_stadium", "get_player_stats", "get_team_info", "get_team_city">>

\* the list of chatbot.py:924-935
FUNCS == <<"get_competition_info", "get_information_team_info", "get_player_info",
           "get_referee_info", "get_referee_stats_info", "get_stadium_info",
           "get_team_by_stadium", "get_player_stats", "get_team_info",
           "get_team_city">>

\* func(q) for the function of that name
CallFunc(name, quest, d) ==
    CASE name = "get_competition_info" -> get_competition_info(quest, d)
      [] name = "get_information_team_info" -> get_information_team_info(quest, d)
      [] name = "get_player_info" -> get_player_info(quest, d)
      [] name = "get_referee_info" -> get_referee_info(quest, d)
      [] name = "get_referee_stats_info" -> get_referee_stats_info(quest, d)
      [] name = "get_stadium_info" -> get_stadium_info(quest, d)
      [] name = "get_team_by_stadium" -> get_team_by_stadium(quest, d)
      [] name = "get_player_stats" -> get_player_stats(quest, d)
      [] name = "get_team_info" -> get_team_info(quest, d)
      [] name = "get_team_city" -> get_team_city(quest, d)

\* n copies of the call c
Repeat(c, n) == [j \in 1..n |-> c]

\* the per-row lookups of a matcher that queries once for each fetched row
\* until a row matches (match: its index, 0 when none does)
PerRow(c, rows, match) == Repeat(c, IF match = 0 THEN Len(rows) ELSE match)

\* the calls stage(quest) issues to the store and to the embedding model, in
\* order, when none fails: the table of each supabase.table(..) query and
\* "embed" for embed_model.encode.  rows is the store's answer to the first
\* query of get_top_entity.
StageCalls(stage, quest, d, rows) ==
    LET lq == Lower(quest)
        nq == normalize(quest)
    IN
    CASE stage = "get_top_entity" ->
            LET k == FirstKeyword(lq)
            IN  IF k = 0 THEN <<>>
                ELSE IF SelectFails(STAT_MAP[k].table, {"player_id", STAT_MAP[k].column})
                        \/ rows = <<>>
                THEN <<STAT_MAP[k].table>>
                ELSE <<STAT_MAP[k].table, "players">>
      [] stage = "get_smalltalk" -> <<>>
      [] stage = "get_competition_info" -> <<"competitions">>
      [] stage = "get_information_team_info" -> <<"information_team">>
      [] stage = "get_player_info" ->
            <<"players">> \o (IF Truthy(get_player_info(quest, d)) THEN <<"teams">>
                              ELSE <<>>)
      [] stage = "get_referee_info" -> <<"referees">>
      [] stage = "get_referee_stats_info" ->
            <<"referee_stats">> \o
            PerRow("referees", d.referee_stats,
                   FirstRow({k \in 1..Len(d.referee_stats) :
                               Contains(lq, Lower(RefName(d.referee_stats[k], d)))}))
      [] stage = "get_stadium_info" -> <<"stadiums">>
      [] stage = "get_team_by_stadium" ->
            <<"stadiums">> \o (IF Truthy(get_team_by_stadium(quest, d)) THEN <<"teams">>
                               ELSE <<>>)
      [] stage = "get_player_stats" ->
            <<"stats">> \o
            PerRow("players", d.stats,
                   FirstRow({k \in 1..Len(d.stats) :
                               Contains(lq, Lower(PlayerName(d.stats[k], d)))}))
      [] stage = "get_team_info" ->
            <<"teams">> \o (IF Truthy(get_team_info(quest, d)) THEN <<"stadiums">>
                            ELSE <<>>)
      [] stage = "get_team_city" -> <<"teams">>
      [] stage = "retrieve_context" -> <<"embed", "document_embeddings">>
      [] stage = "fallback" -> <<>>

\* a plausible slip: the synthesizer's message reused
Fallback_precise == NoDataPrecise

\* the answer of chatbot.py:955
Fallback == <<"No hay datos suficientes en la BBDD.">>

NoResponse == [answer |-> <<>>, sources |-> <<>>]

\* the harnesses at rest
NormOff == [pc |-> "off", text |-> <<>>, once |-> <<>>, twice |-> <<>>]
RetrOff == [pc |-> "off", qvec |-> <<>>, rows |-> <<>>, k |-> 0, threshold |-> 0,
            result |-> <<>>]
TopOff == [pc |-> "off", question |-> <<>>, db |-> EmptyDb, rows |-> <<>>,
           entry |-> 0, result |-> None]
SmallOff == [pc |-> "off", question |-> <<>>, result |-> None, calls |-> <<>>]
GenOff == [pc |-> "off", chunks |-> <<>>, result |-> <<>>]
ConcOff == [pc |-> "off"]

\* the harnesses other than that of normalize, retrieve_context, get_top_entity
OthersOff == small = SmallOff /\ gen = GenOff /\ conc = ConcOff

chatVars == <<db, question, pc, fi, q, response, trace, chunks>>

\* the outcome of a stage as the trace records it; the trace also records
\* whether the store or the embedding model failed in the stage
Outcome(r) ==
    IF r.kind = "raise" THEN "raise" ELSE IF Truthy(r) THEN "answer" ELSE "none"

\* a plausible slip: the stages all run, whatever the earlier ones answered
AfterStage_keepsGoing(stage, fail, res, calls, nextPc, nextFi) ==
    LET r == IF fail THEN Raised ELSE res IN
    /\ \E n \in (IF fail THEN 1..Len(calls) ELSE {Len(calls)}) :
          trace' = Append(trace, [stage |-> stage, outcome |-> Outcome(r),
                                  fault |-> fail, calls |-> SubSeq(calls, 1, n)])
    /\ IF r.kind = "raise"
       THEN pc' = "raised" /\ UNCHANGED <<response, fi>>
       ELSE pc' = nextPc /\ fi' = nextFi /\ UNCHANGED response
    /\ UNCHANGED <<db, question, q, chunks, norm, retr, top, small, gen, conc>>

\* `answer = stage(q); if answer: return ChatResponse(answer=answer, sources=[])`,
\* an exception leaving chat.  calls are the calls the stage issues when none
\* fails; a failure is the failure of one of them, and ends the stage there.
AfterStage(stage, fail, res, calls, nextPc, nextFi) ==
    LET r == IF fail THEN Raised ELSE res IN
    /\ \E n \in (IF fail THEN 1..Len(calls) ELSE {Len(calls)}) :
          trace' = Append(trace, [stage |-> stage, outcome |-> Outcome(r),
                                  fault |-> fail, calls |-> SubSeq(calls, 1, n)])
    /\ IF r.kind = "raise"
       THEN pc' = "raised" /\ UNCHANGED <<response, fi>>
       ELSE IF Truthy(r)
       THEN /\ pc' = "returned"
            /\ response' = [answer |-> r.text, sources |-> <<>>]
            /\ UNCHANGED fi
       ELSE pc' = nextPc /\ fi' = nextFi /\ UNCHANGED response
    /\ UNCHANGED <<db, question, q, chunks, norm, retr, top, small, gen, conc>>

\* a plausible slip: the question lowercased only
Receive_lowerOnly(qn) ==
    /\ pc = "idle"
    /\ question' = qn
    /\ q' = Lower(qn)
    /\ pc' = "get_top_entity"
    /\ UNCHANGED <<db, fi, response, trace, chunks, norm, retr, top, small, gen, conc>>

\* a request arrives: q = normalize(req.question), chatbot.py:911
Receive(qn) ==
    /\ pc = "idle"
    /\ question' = qn
    /\ q' = normalize(qn)
    /\ pc' = "get_top_entity"
    /\ UNCHANGED <<db, fi, response, trace, chunks, norm, retr, top, small, gen, conc>>

\* chatbot.py:914-916.  The store may fail on either query of get_top_entity.
StepTopEntity ==
    /\ pc = "get_top_entity"
    /\ IF TopQueries(q)
       THEN \E fail \in BOOLEAN, rows \in TopRows(q, db) :
               AfterStage("get_top_entity", fail, get_top_entity(q, db, rows),
                          StageCalls("get_top_entity", q, db, rows),
                          "get_smalltalk", fi)
       ELSE AfterStage("get_top_entity", FALSE, get_top_entity(q, db, <<>>),
                       StageCalls("get_top_entity", q, db, <<>>),
                       "get_smalltalk", fi)

\* chatbot.py:919-921
StepSmalltalk ==
    /\ pc = "get_smalltalk"
    /\ AfterStage("get_smalltalk", FALSE, get_smalltalk(q),
                  StageCalls("get_smalltalk", q, db, <<>>), "funcs", 1)

\* one turn of the loop of chatbot.py:924-938.  The store may fail on a query.
StepFunc ==
    /\ pc = "funcs"
    /\ \E fail \in BOOLEAN :
          AfterStage(FUNCS[fi], fail, CallFunc(FUNCS[fi], q, db),
                     StageCalls(FUNCS[fi], q, db, <<>>),
                     IF fi = Len(FUNCS) THEN "retrieve_context" ELSE "funcs",
                     IF fi = Len(FUNCS) THEN fi ELSE fi + 1)

\* chatbot.py:941: chunks = retrieve_context(req.question).  The embedding
\* model or the store may fail.
StepRetrieve ==
    /\ pc = "retrieve_context"
    /\ \E fail \in BOOLEAN, qvec \in QVecs :
          IF fail
          THEN /\ pc' = "raised"
               /\ \E n \in 1..2 :
                     trace' = Append(trace,
                                     [stage |-> "retrieve_context", outcome |-> "raise",
                                      fault |-> TRUE,
                                      calls |-> SubSeq(StageCalls("retrieve_context",
                                                                  question, db, <<>>),
                                                       1, n)])
               /\ UNCHANGED chunks
          ELSE /\ chunks' = retrieve_context(qvec, db.document_embeddings,
                                             DefaultK, DefaultThreshold)
               /\ pc' = "retrieved"
               /\ trace' = Append(trace, [stage |-> "retrieve_context",
                                          outcome |-> IF chunks' # <<>> THEN "answer"
                                                      ELSE "none",
                                          fault |-> FALSE,
                                          calls |-> StageCalls("retrieve_context",
                                                               question, db, <<>>)])
    /\ UNCHANGED <<db, question, q, fi, response, norm, retr, top, small, gen, conc>>

\* chatbot.py:942-952
StepSynthesize ==
    /\ pc = "retrieved"
    /\ chunks # <<>>
    /\ response' = [answer |-> generate_answer(question, chunks),
                    sources |-> Sources(chunks)]
    /\ pc' = "returned"
    /\ UNCHANGED <<db, question, q, fi, trace, chunks, norm, retr, top, small, gen, conc>>

\* chatbot.py:955
StepFallback ==
    /\ pc = "retrieved"
    /\ chunks = <<>>
    /\ response' = [answer |-> Fallback, sources |-> <<>>]
    /\ pc' = "returned"
    /\ trace' = Append(trace, [stage |-> "fallback", outcome |-> "answer",
                               fault |-> FALSE, calls |-> <<>>])
    /\ UNCHANGED <<db, question, q, fi, chunks, norm, retr, top, small, gen, conc>>

Init ==
    /\ db \in Stores
    /\ question = <<>>
    /\ q = <<>>
    /\ pc = "idle"
    /\ fi = 1
    /\ response = NoResponse
    /\ trace = <<>>
    /\ chunks = <<>>
    /\ norm = NormOff
    /\ retr = RetrOff
    /\ top = TopOff
    /\ OthersOff

Next ==
    \/ \E qn \in Questions : Receive(qn)
    \/ StepTopEntity
    \/ StepSmalltalk
    \/ StepFunc
    \/ StepRetrieve
    \/ StepSynthesize
    \/ StepFallback

Spec == Init /\ [][Next]_vars

----------------------------------------------------------------------------
(* normalize on its own: every text up to MaxLen over NormAlphabet *)

\* lower and upper case, precomposed and combining diacritics, whitespace
NormAlphabet == {"a", "A", "a'", "A'", "U+0301", " "}

Texts(n) == UNION {[1..m -> NormAlphabet] : m \in 0..n}

\* chat at rest while a function is exercised on its own
ChatOff ==
    /\ db = EmptyDb
    /\ question = <<>>
    /\ q = <<>>
    /\ pc = "off"
    /\ fi = 1
    /\ response = NoResponse
    /\ trace = <<>>
    /\ chunks = <<>>

InitNormalize ==
    /\ norm \in {[pc |-> "start", text |-> t, once |-> <<>>, twice |-> <<>>] :
                   t \in Texts(MaxLen)}
    /\ retr = RetrOff
    /\ top = TopOff
    /\ OthersOff
    /\ ChatOff

\* once = normalize(text)
NormalizeOnce ==
    /\ norm.pc = "start"
    /\ norm' = [norm EXCEPT !.pc = "once", !.once = normalize(norm.text)]
    /\ UNCHANGED <<chatVars, retr, top, small, gen, conc>>

\* twice = normalize(once)
NormalizeTwice ==
    /\ norm.pc = "once"
    /\ norm' = [norm EXCEPT !.pc = "twice", !.twice = normalize(norm.once)]
    /\ UNCHANGED <<chatVars, retr, top, small, gen, conc>>

NextNormalize == NormalizeOnce \/ NormalizeTwice

SpecNormalize == InitNormalize /\ [][NextNormalize]_vars

----------------------------------------------------------------------------
(* retrieve_context on its own *)

\* the embedding columns of the corpora: well-formed vectors, null, an empty
\* list, a list of another length, a list holding a non-number
EmbChoices == {Vec(<<1, 0>>), Vec(<<1, 1>>), Vec(<<2, 1>>), Vec(<<-1, 0>>),
               NoVec, Vec(<<>>), Vec(<<1>>), BadVec(<<1, 0>>)}

\* the corpus whose i-th row has embedding embs[i]
Corpus(embs) == [i \in 1..Len(embs) |-> DocRow(i, GolText, embs[i])]

Corpora == {Corpus(e) : e \in UNION {[1..m -> EmbChoices] : m \in 0..MaxCorpus}}

\* thresholds: -1.0, 0.0 and the default 0.7
Thresholds == {-ScoreOne, 0, DefaultThreshold}

InitRetrieve ==
    /\ retr \in {[pc |-> "start", qvec |-> v, rows |-> c, k |-> k, threshold |-> t,
                  result |-> <<>>] :
                   v \in {<<1, 0>>, <<1, 1>>, <<0, 0>>}, c \in Corpora,
                   k \in 0..MaxK, t \in Thresholds}
    /\ norm = NormOff
    /\ top = TopOff
    /\ OthersOff
    /\ ChatOff

\* result = retrieve_context(question, k, threshold)
Retrieve ==
    /\ retr.pc = "start"
    /\ retr' = [retr EXCEPT !.pc = "done",
                            !.result = retrieve_context(retr.qvec, retr.rows,
                                                        retr.k, retr.threshold)]
    /\ UNCHANGED <<chatVars, norm, top, small, gen, conc>>

NextRetrieve == Retrieve

SpecRetrieve == InitRetrieve /\ [][NextRetrieve]_vars

----------------------------------------------------------------------------
(* get_top_entity on its own, over stats tables of up to MaxStats rows *)

StatsTables ==
    UNION {[1..m -> {StatsRow(p, 0, g) : p \in 1..2, g \in 0..MaxGoals}] :
             m \in 0..MaxStats}

PlayersTables ==
    {<<>>, <<PlayerRow(1, Leo, 1)>>, <<PlayerRow(2, Penya, 7), PlayerRow(1, Leo, 1)>>}

TopQuestions == {
    <<"g", "o", "l", "e", "s">>,
    <<"M", "a'", "s", " ", "g", "o", "l", "e", "s">>,
    <<" ", "G", "O", "L", "E", "S", " ">>,
    <<"g", "o", "l", "e", "s", " ", "y", " ", "a", "s", "i", "s", "t", "e", "n", "c", "i", "a", "s">>,
    <<"p", "a", "r", "t", "i", "d", "o", "s", " ", "y", " ", "g", "o", "l", "e", "s">>,
    <<"p", "e", "n", "a", "l", "t", "i", "s", " ", "f", "a", "l", "l", "a", "d", "o", "s">>,
    <<"T", "a", "r", "j", "e", "t", "a", "s", " ", "a", "m", "a", "r", "i", "l", "l", "a", "s", " ", "a'", "r", "b", "i", "t", "r", "o">>,
    <<"x", "y", "z">> }

InitTop ==
    /\ top \in {[pc |-> "start", question |-> qn,
                 db |-> [EmptyDb EXCEPT !.stats = s, !.players = p],
                 rows |-> <<>>, entry |-> 0, result |-> None] :
                  qn \in TopQuestions, s \in StatsTables, p \in PlayersTables}
    /\ norm = NormOff
    /\ retr = RetrOff
    /\ OthersOff
    /\ ChatOff

\* result = get_top_entity(question); entry is the entry of STAT_MAP the loop
\* of chatbot.py:782-783 stops at (0: none)
TopEntity ==
    /\ top.pc = "start"
    /\ \E rows \in (IF TopQueries(top.question) THEN TopRows(top.question, top.db)
                    ELSE {<<>>}) :
          top' = [top EXCEPT !.pc = "done", !.rows = rows,
                             !.entry = FirstKeyword(Lower(top.question)),
                             !.result = get_top_entity(top.question, top.db, rows)]
    /\ UNCHANGED <<chatVars, norm, retr, small, gen, conc>>

NextTop == TopEntity

SpecTop == InitTop /\ [][NextTop]_vars

----------------------------------------------------------------------------
(* get_smalltalk on its own *)

\* the questions: every trigger of the table alone, the triggers of an entry
\* together in both orders, a trigger of each entry after one of the next
\* entry, and some
\* with upper case, diacritics, other words or nothing in them
SmallQuestions ==
    UNION {{SMALLTALK[i].triggers[j] : j \in 1..Len(SMALLTALK[i].triggers)} :
             i \in 1..Len(SMALLTALK)} \cup
    {SMALLTALK[i].triggers[1] \o <<" ">> \o SMALLTALK[i].triggers[Len(SMALLTALK[i].triggers)] :
        i \in 1..Len(SMALLTALK)} \cup
    {SMALLTALK[i].triggers[Len(SMALLTALK[i].triggers)] \o <<" ">> \o SMALLTALK[i].triggers[1] :
        i \in 1..Len(SMALLTALK)} \cup
    {SMALLTALK[i + 1].triggers[1] \o <<",", " ">> \o SMALLTALK[i].triggers[1] :
        i \in 1..(Len(SMALLTALK) - 1)} \cup
    {<<"h", "o", "l", "a", ",", " ", "c", "o", "m", "o", " ", "e", "s", "t", "a", "s">>,
     <<" ", "H", "O", "L", "A", " ">>,
     <<"C", "o'", "m", "o", " ", "e", "s", "t", "a'", "s">>,
     <<"x", "y", "z">>, <<>>}

InitSmalltalk ==
    /\ small \in {[pc |-> "start", question |-> qn, result |-> None, calls |-> <<>>] :
                    qn \in SmallQuestions}
    /\ norm = NormOff
    /\ retr = RetrOff
    /\ top = TopOff
    /\ gen = GenOff
    /\ conc = ConcOff
    /\ ChatOff

\* result = get_smalltalk(question)
Smalltalk ==
    /\ small.pc = "start"
    /\ small' = [small EXCEPT !.pc = "done",
                              !.result = get_smalltalk(small.question),
                              !.calls = StageCalls("get_smalltalk", small.question,
                                                   db, <<>>)]
    /\ UNCHANGED <<chatVars, norm, retr, top, gen, conc>>

NextSmalltalk == Smalltalk

SpecSmalltalk == InitSmalltalk /\ [][NextSmalltalk]_vars

----------------------------------------------------------------------------
(* generate_answer on its own, over lists of up to MaxChunks chunks *)

\* the contents of the chunks: none, blank, the two-sentence example, texts
\* whose first sentence has 4, 9 and 10 characters, a first line without a
\* period, two lines, a leading period, and long texts of 200, 201 and 205
\* characters
GenContents ==
    {<<>>, <<" ">>, MessiText, GolText,
     <<"M", "e", "s", "s", "i", " ", "v", "a", ".", " ", "Y", "a">>, <<"M", "e", "s", "s", "i", " ", "v", "i", "o", ".", " ", "Y", "a">>, <<"M", "e", "s", "s", "i", " ", "g", "a", "n", "a">>, <<" ", "G", "o", "l", ".", "\n", "M", "e", "s", "s", "i", " ", "m", "a", "r", "c", "a", ".", " ">>,
     <<".", " ", "M", "e", "s", "s", "i">>,
     <<"G", "o", "l", "\n">> \o Repeat("x", 196),
     Repeat("x", 201),
     <<"G", "o", "l", ".", "\n">> \o Repeat("x", 200)}

GenChunks ==
    UNION {{[i \in 1..m |-> WithScore(DocRow(i, cont[i], Vec(<<1, 0>>)), ScoreOne)] :
              cont \in [1..m -> GenContents]} : m \in 0..MaxChunks}

InitGenerate ==
    /\ gen \in {[pc |-> "start", chunks |-> cs, result |-> <<>>] : cs \in GenChunks}
    /\ norm = NormOff
    /\ retr = RetrOff
    /\ top = TopOff
    /\ small = SmallOff
    /\ conc = ConcOff
    /\ ChatOff

\* result = generate_answer(question, chunks)
Generate ==
    /\ gen.pc = "start"
    /\ gen' = [gen EXCEPT !.pc = "done", !.result = generate_answer(<<>>, gen.chunks)]
    /\ UNCHANGED <<chatVars, norm, retr, top, small, conc>>

NextGenerate == Generate

SpecGenerate == InitGenerate /\ [][NextGenerate]_vars

----------------------------------------------------------------------------
(* Concurrent requests: chat is a synchronous endpoint, so the server runs *)
(* each request on its own thread.  The threads share the store, the      *)
(* embedding model and the two vocabularies; every other name of          *)
(* chatbot.py is a local of the call.  A request advances by one stage,    *)
(* and inside retrieve_context by one call or one row, at a time.          *)

\* the requests in flight
ReqIds == {1, 2}

ConcQuestions == {<<"M", "a'", "s", " ", "g", "o", "l", "e", "s">>, <<"h", "o", "l", "a", " ", "l", "e", "o">>, <<"l", "e", "o">>, <<"x", "y", "z">>}

\* the deterministic embedding functions: a fixed vector for each question
ConcEmbeds == [ConcQuestions -> {<<1, 0>>, <<0, 1>>}]

\* the store contents: everything populated, or the corpus alone
ConcStores == {FullDb, [EmptyDb EXCEPT !.document_embeddings = FullDb.document_embeddings]}

\* the locals of a call of chat (and of retrieve_context inside it)
Frame0 == [pc |-> "idle", question |-> <<>>, q |-> <<>>, fi |-> 1, qvec |-> <<>>,
           ri |-> 1, scored |-> <<>>, response |-> NoResponse]

\* a plausible slip: one list of rows kept for all requests
RowsOf_shared(i) == 1

\* the list object that holds the rows request i fetched: `.execute().data`
\* builds a new list of new dicts on every call, chatbot.py:63
RowsOf(i) == i

InitConcurrent ==
    /\ db \in ConcStores
    /\ conc \in {[pc |-> "on", embed |-> e, frames |-> [i \in ReqIds |-> Frame0],
                   rows |-> [i \in ReqIds |-> <<>>]] : e \in ConcEmbeds}
    /\ question = <<>>
    /\ q = <<>>
    /\ pc = "off"
    /\ fi = 1
    /\ response = NoResponse
    /\ trace = <<>>
    /\ chunks = <<>>
    /\ norm = NormOff
    /\ retr = RetrOff
    /\ top = TopOff
    /\ small = SmallOff
    /\ gen = GenOff

ConcUnchanged ==
    UNCHANGED <<db, question, pc, fi, q, response, trace, chunks, norm, retr, top,
                small, gen>>

\* request i's frame becomes f
SetFrame(i, f) == conc' = [conc EXCEPT !.frames[i] = f]

\* `answer = stage(q); if answer: return ChatResponse(answer=answer, sources=[])`
\* in request i
ConcAfter(i, res, nextPc, nextFi) ==
    LET f == conc.frames[i] IN
    /\ SetFrame(i, IF res.kind = "raise" THEN [f EXCEPT !.pc = "raised"]
                   ELSE IF Truthy(res)
                   THEN [f EXCEPT !.pc = "returned",
                                  !.response = [answer |-> res.text, sources |-> <<>>]]
                   ELSE [f EXCEPT !.pc = nextPc, !.fi = nextFi])
    /\ ConcUnchanged

\* chatbot.py:911
ConcReceive(i, qn) ==
    /\ conc.frames[i].pc = "idle"
    /\ SetFrame(i, [conc.frames[i] EXCEPT !.pc = "get_top_entity", !.question = qn,
                                          !.q = normalize(qn)])
    /\ ConcUnchanged

\* chatbot.py:914-916
ConcTopEntity(i) ==
    LET f == conc.frames[i] IN
    /\ f.pc = "get_top_entity"
    /\ \E rows \in (IF TopQueries(f.q) THEN TopRows(f.q, db) ELSE {<<>>}) :
          ConcAfter(i, get_top_entity(f.q, db, rows), "get_smalltalk", 1)

\* chatbot.py:919-921
ConcSmalltalk(i) ==
    /\ conc.frames[i].pc = "get_smalltalk"
    /\ ConcAfter(i, get_smalltalk(conc.frames[i].q), "funcs", 1)

\* one turn of the loop of chatbot.py:936-938
ConcFunc(i) ==
    LET f == conc.frames[i] IN
    /\ f.pc = "funcs"
    /\ ConcAfter(i, CallFunc(FUNCS[f.fi], f.q, db),
                 IF f.fi = Len(FUNCS) THEN "encode" ELSE "funcs",
                 IF f.fi = Len(FUNCS) THEN f.fi ELSE f.fi + 1)

\* chatbot.py:62: qvec = embed_model.encode(question).tolist()
ConcEncode(i) ==
    LET f == conc.frames[i] IN
    /\ f.pc = "encode"
    /\ SetFrame(i, [f EXCEPT !.pc = "fetch", !.qvec = conc.embed[f.question]])
    /\ ConcUnchanged

\* chatbot.py:63-64: rows = ...execute().data or []; scored = []
ConcFetch(i) ==
    LET f == conc.frames[i] IN
    /\ f.pc = "fetch"
    /\ conc' = [conc EXCEPT !.frames[i] = [f EXCEPT !.pc = "score", !.ri = 1,
                                                    !.scored = <<>>],
                            !.rows[RowsOf(i)] = db.document_embeddings]
    /\ ConcUnchanged

\* one turn of the loop of chatbot.py:65-75, on row ri of the request's rows
ConcScore(i) ==
    LET f == conc.frames[i]
        rows == conc.rows[RowsOf(i)]
        r == rows[f.ri]
        sim == cosine_similarity(f.qvec, r.embedding.v)
        kept == /\ ~Skipped(r.embedding)
                /\ ~SimRaises(f.qvec, r.embedding)
                /\ sim >= DefaultThreshold
    IN
    /\ f.pc = "score"
    /\ f.ri <= Len(rows)
    /\ conc' = [conc EXCEPT !.frames[i] =
                                [f EXCEPT !.ri = f.ri + 1,
                                          !.scored = IF kept THEN Append(f.scored, f.ri)
                                                     ELSE f.scored],
                            !.rows[RowsOf(i)] =
                                IF kept THEN [rows EXCEPT ![f.ri] = WithScore(r, sim)]
                                ELSE rows]
    /\ ConcUnchanged

\* chatbot.py:76-77 and 942-955: the sort reads x["_score"] of every scored
\* row, and raises on a row that has none
ConcReturn(i) ==
    LET f == conc.frames[i]
        rows == conc.rows[RowsOf(i)]
        scored == [j \in 1..Len(f.scored) |-> rows[f.scored[j]]]
        cs == Prefix(SortDesc(scored), DefaultK)
    IN
    /\ f.pc = "score"
    /\ f.ri > Len(rows)
    /\ SetFrame(i, IF \E j \in 1..Len(scored) : "_score" \notin DOMAIN scored[j]
                   THEN [f EXCEPT !.pc = "raised"]
                   ELSE IF cs # <<>>
                   THEN [f EXCEPT !.pc = "returned",
                                  !.response = [answer |-> generate_answer(f.question, cs),
                                                sources |-> Sources(cs)]]
                   ELSE [f EXCEPT !.pc = "returned",
                                  !.response = [answer |-> Fallback, sources |-> <<>>]])
    /\ ConcUnchanged

NextConcurrent ==
    \E i \in ReqIds :
        \/ \E qn \in ConcQuestions : ConcReceive(i, qn)
        \/ ConcTopEntity(i)
        \/ ConcSmalltalk(i)
        \/ ConcFunc(i)
        \/ ConcEncode(i)
        \/ ConcFetch(i)
        \/ ConcScore(i)
        \/ ConcReturn(i)

SpecConcurrent == InitConcurrent /\ [][NextConcurrent]_vars

----------------------------------------------------------------------------
(* Properties *)

\* the stages in the order the specification gives them
StageOrder ==
    <<"get_top_entity", "get_smalltalk", "get_competition_info",
      "get_information_team_info", "get_player_info", "get_referee_info",
      "get_referee_stats_info", "get_stadium_info", "get_team_by_stadium",
      "get_player_stats", "get_team_info", "get_team_city", "retrieve_context",
      "fallback">>

\* the responses stage can give to the request in flight
StageResponses(stage) ==
    CASE stage = "get_top_entity" ->
            IF TopQueries(q)
            THEN {[answer |-> get_top_entity(q, db, r).text, sources |-> <<>>] :
                    r \in TopRows(q, db)}
            ELSE {}
      [] stage = "get_smalltalk" ->
            {[answer |-> get_smalltalk(q).text, sources |-> <<>>]}
      [] stage = "retrieve_context" ->
            {[answer |-> generate_answer(question, chunks), sources |-> Sources(chunks)]}
      [] stage = "fallback" ->
            {[answer |-> <<"No hay datos suficientes en la BBDD.">>, sources |-> <<>>]}
      [] OTHER ->
            {[answer |-> CallFunc(stage, q, db).text, sources |-> <<>>]}

\* stage gives no answer to the request in flight
StageSilent(stage) ==
    CASE stage = "get_top_entity" -> ~TopQueries(q)
      [] stage = "get_smalltalk" -> ~Truthy(get_smalltalk(q))
      [] stage = "retrieve_context" -> chunks = <<>>
      [] stage = "fallback" -> FALSE
      [] OTHER -> ~Truthy(CallFunc(stage, q, db))

LastStage == trace[Len(trace)]

\* C1: chat runs the stages in the fixed order (superlative resolver, scripted
\* dialogue, the ten structured matchers in their declared order, retrieval,
\* fallback); every stage before the last one run gave no answer, and the
\* response returned is the answer of the last stage run.
C1_FirstAnswerInFixedOrder ==
    /\ Len(trace) <= Len(StageOrder)
    /\ \A i \in 1..Len(trace) : trace[i].stage = StageOrder[i]
    /\ \A i \in 1..(Len(trace) - 1) :
          trace[i].outcome = "none" /\ StageSilent(StageOrder[i])
    /\ pc = "returned" =>
          /\ LastStage.outcome = "answer"
          /\ ~StageSilent(LastStage.stage)
          /\ response \in StageResponses(LastStage.stage)

\* a structured matcher answered after the resolver, the dialogue and the
\* earlier matchers had all been tried
C1_Witness ==
    /\ pc = "returned"
    /\ LastStage.stage = "get_team_by_stadium"
    /\ Len(trace) = 9

\* C2: the answer of every response chat returns is a non-empty string.
C2_AnswerNeverEmpty ==
    pc = "returned" =>
        /\ response.answer # <<>>
        /\ \E i \in 1..Len(response.answer) : response.answer[i] # ""

\* a response over a store whose tables and corpus are all empty
C2_Witness ==
    /\ pc = "returned"
    /\ db = EmptyDb
    /\ Len(trace) = Len(StageOrder)

\* C3: a failure of the store or of the embedding model never leaves chat:
\* the request does not end with the exception of a failed stage.
C3_FailureNeverLeavesChat ==
    ~(pc = "raised" /\ LastStage.fault)

\* no stage before retrieval answers the request in flight
NoStageAnswers ==
    \A i \in 1..12 : StageSilent(StageOrder[i])

\* C4: when the resolver, the dialogue and every structured matcher give
\* nothing and retrieve_context returns no chunk, chat returns exactly the
\* fallback message with an empty sources list.
C4_FallbackWhenNothingFound ==
    (pc = "returned" /\ NoStageAnswers /\ chunks = <<>>) =>
        response = [answer |-> <<"No hay datos suficientes en la BBDD.">>,
                    sources |-> <<>>]

\* the fallback over a corpus that has rows, none of them close enough
C4_Witness ==
    /\ pc = "returned"
    /\ NoStageAnswers
    /\ chunks = <<>>
    /\ db.document_embeddings # <<>>
    /\ db.players # <<>>

\* C5: retrieve_context returns at most k chunks, each with _score >= threshold.
C5_AtMostKAboveThreshold ==
    retr.pc = "done" =>
        /\ Len(retr.result) <= retr.k
        /\ \A i \in 1..Len(retr.result) : retr.result[i]._score >= retr.threshold

\* exactly k chunks returned while other rows fell below the threshold
C5_Witness ==
    /\ retr.pc = "done"
    /\ retr.k = 2
    /\ Len(retr.result) = 2
    /\ Len(retr.rows) = 3
    /\ retr.threshold = DefaultThreshold
    /\ \E i \in 1..3 : /\ ~Skipped(retr.rows[i].embedding)
                       /\ retr.rows[i].embedding.numeric
                       /\ cosine_similarity(retr.qvec, retr.rows[i].embedding.v)
                             < retr.threshold

\* the rows of the corpus the loop of retrieve_context scores
Scorable(r) == ~Skipped(r.embedding) /\ r.embedding.numeric

\* the rows of the corpus that qualify: scored at or above the threshold
Qualifying ==
    {i \in 1..Len(retr.rows) :
        /\ Scorable(retr.rows[i])
        /\ cosine_similarity(retr.qvec, retr.rows[i].embedding.v) >= retr.threshold}

\* C6: the result of retrieve_context is sorted by non-increasing _score and is
\* the top-k prefix of the qualifying rows: it holds min(k, number of
\* qualifying rows) distinct corpus rows, each with its own score, and no
\* scored row left out has a score above that of a returned row.
C6_SortedTopK ==
    retr.pc = "done" =>
        LET res == retr.result
            ids == {res[i].id : i \in 1..Len(res)}
        IN  /\ \A i \in 1..(Len(res) - 1) : res[i]._score >= res[i + 1]._score
            /\ Cardinality(ids) = Len(res)
            /\ Len(res) = (IF retr.k <= Cardinality(Qualifying) THEN retr.k
                           ELSE Cardinality(Qualifying))
            /\ \A i \in 1..Len(res) :
                  /\ res[i].id \in Qualifying
                  /\ res[i]._score = cosine_similarity(retr.qvec,
                                                       retr.rows[res[i].id].embedding.v)
            /\ \A j \in 1..Len(retr.rows) :
                  (Scorable(retr.rows[j]) /\ j \notin ids) =>
                     \A i \in 1..Len(res) :
                        cosine_similarity(retr.qvec, retr.rows[j].embedding.v)
                           <= res[i]._score

\* a result that reorders the corpus and leaves a qualifying row out
C6_Witness ==
    /\ retr.pc = "done"
    /\ Len(retr.result) = 2
    /\ retr.result[1]._score > retr.result[2]._score
    /\ retr.result[1].id > retr.result[2].id
    /\ Cardinality(Qualifying) = 3

\* C7: the sources of a response are empty unless the answer comes from the
\* retrieval stage; then there is one entry per retrieved chunk, in retrieval
\* order, with the chunk's source table, source id and score (the score
\* rounded to four decimal places).
C7_SourcesOnlyFromRetrieval ==
    pc = "returned" =>
        IF LastStage.stage = "retrieve_context"
        THEN /\ Len(response.sources) = Len(chunks)
             /\ \A i \in 1..Len(chunks) :
                   /\ response.sources[i].table = chunks[i].source_table
                   /\ response.sources[i].id = chunks[i].source_id
                   /\ response.sources[i].score % 10 = 0
                   /\ response.sources[i].score - chunks[i]._score \in -5..5
        ELSE response.sources = <<>>

\* a retrieval answer citing three chunks, one with a score that rounding changes
C7_Witness ==
    /\ pc = "returned"
    /\ LastStage.stage = "retrieve_context"
    /\ Len(response.sources) = 3
    /\ \E i \in 1..3 : response.sources[i].score # chunks[i]._score

\* C8: normalize is idempotent: normalize(normalize(t)) = normalize(t).
C8_NormalizeIdempotent ==
    norm.pc = "twice" => norm.twice = norm.once

\* a text with whitespace around an upper-case letter carrying a diacritic
C8_Witness ==
    /\ norm.pc = "twice"
    /\ norm.text = <<" ", "A'", " ">>
    /\ norm.once = <<"a">>

\* the name get_top_entity reports for player id pid
TopPlayerName(pid) ==
    LET hits == {j \in 1..Len(top.db.players) : top.db.players[j].id = pid}
    IN  IF hits = {} THEN Desconocido
        ELSE top.db.players[CHOOSE j \in hits : \A k \in hits : j <= k].name

\* C9: for a question containing "goles" and no earlier phrase of the
\* vocabulary ("partidos"), over a stats table with rows, get_top_entity
\* returns "El jugador con mas goles es X, con N goles." where N is the
\* largest goals value of the table and X the name of the player that a row
\* with that value references ("desconocido" when the players table has no
\* such player).
C9_TopGoals ==
    (/\ top.pc = "done"
     /\ Contains(Lower(top.question), <<"g", "o", "l", "e", "s">>)
     /\ ~Contains(Lower(top.question), <<"p", "a", "r", "t", "i", "d", "o", "s">>)
     /\ top.db.stats # <<>>) =>
        \E i \in 1..Len(top.db.stats) :
            /\ \A j \in 1..Len(top.db.stats) :
                  top.db.stats[j].goals <= top.db.stats[i].goals
            /\ top.result =
                  Str(<<"El jugador con ma's ", "goles", " es ">>
                      \o TopPlayerName(top.db.stats[i].player_id)
                      \o <<", con ", ToString(top.db.stats[i].goals), " ", "goles", ".">>)

\* the second of two rows holds the maximum and its player is reported
C9_Witness ==
    /\ top.pc = "done"
    /\ top.question = <<"M", "a'", "s", " ", "g", "o", "l", "e", "s">>
    /\ Len(top.db.stats) = 2
    /\ top.db.stats[1].goals < top.db.stats[2].goals
    /\ top.db.stats[2].player_id = 1
    /\ top.db.stats[1].player_id = 2
    /\ Len(top.db.players) = 2
    /\ top.result.kind = "str"
    /\ SubSeq(top.result.text, 4, 6) = Leo

\* C10: for the question "capacidad estadio" over a stadiums table with rows,
\* with no failure of the store, chat returns an answer carrying the largest
\* capacity of the table, with an empty sources list.
C10_CapacityAnswered ==
    (/\ pc \in {"returned", "raised"}
     /\ question = <<"c", "a", "p", "a", "c", "i", "d", "a", "d", " ", "e", "s", "t", "a", "d", "i", "o">>
     /\ db.stadiums # <<>>
     /\ \A i \in 1..Len(trace) : ~trace[i].fault) =>
        /\ pc = "returned"
        /\ response.sources = <<>>
        /\ \E i \in 1..Len(db.stadiums) :
              /\ \A j \in 1..Len(db.stadiums) :
                    db.stadiums[j].capacity <= db.stadiums[i].capacity
              /\ \E n \in 1..Len(response.answer) :
                    response.answer[n] = ToString(db.stadiums[i].capacity)

\* the normalized question of the get_smalltalk harness
SmallQ == normalize(small.question)

\* the entries of the dialogue table whose condition holds on SmallQ
SmallFiring == {i \in 1..Len(SMALLTALK) : Fires(SMALLTALK[i], SmallQ)}

\* C11: get_smalltalk returns the fixed, non-empty response of the first
\* entry, in declared order, whose trigger condition holds on the normalized
\* question, and none when no entry fires; it issues no call to the store.
C11_SmalltalkFirstEntryWins ==
    small.pc = "done" =>
        /\ small.calls = <<>>
        /\ SmallFiring = {} => small.result = None
        /\ \A i \in SmallFiring :
              (\A j \in SmallFiring : i <= j) =>
                 /\ small.result = Str(SMALLTALK[i].response)
                 /\ Truthy(small.result)
        /\ \A i \in 1..(Len(SMALLTALK) - 1) : SMALLTALK[i].line < SMALLTALK[i + 1].line

\* "hola, como estas": the greeting entry and the later "como estas" entry
\* both fire, and the greeting is returned
C11_Witness ==
    /\ small.pc = "done"
    /\ small.question = <<"h", "o", "l", "a", ",", " ", "c", "o", "m", "o", " ", "e", "s", "t", "a", "s">>
    /\ Cardinality(SmallFiring) = 2
    /\ small.result = Str(<<"!Hola! ?Que' quieres consultar sobre fu'tbol?">>)

\* the chunks of the generate_answer harness whose content is non-empty
GenWithContent == {i \in 1..Len(gen.chunks) : gen.chunks[i].content # <<>>}

\* the first of them
GenFirst == CHOOSE i \in GenWithContent : \A j \in GenWithContent : i <= j

\* C12: generate_answer returns the "insufficient data" message for an empty
\* chunk list and the "not found" message when no chunk has non-empty
\* content; otherwise its result is decided by the first chunk, in input order,
\* whose content is non-empty: it is what that chunk alone would give.
C12_FirstChunkWithContent ==
    gen.pc = "done" =>
        /\ gen.chunks = <<>> =>
              gen.result = <<"No hay datos suficientes en la BBDD para responder con precisio'n.">>
        /\ (gen.chunks # <<>> /\ GenWithContent = {}) =>
              gen.result = <<"No se encuentra informacio'n en la base de datos.">>
        /\ GenWithContent # {} =>
              gen.result = generate_answer(<<>>, <<gen.chunks[GenFirst]>>)

\* a chunk without content ahead of the chunk with the example text
C12_Witness ==
    /\ gen.pc = "done"
    /\ Len(gen.chunks) = 2
    /\ gen.chunks[1].content = <<>>
    /\ gen.chunks[2].content = MessiText
    /\ gen.result = <<"M", "e", "s", "s", "i", " ", "g", "a", "n", "o'", " ", "e", "l", " ", "B", "a", "l", "o'", "n", " ", "d", "e", " ", "O", "r", "o", ".">>

\* the text generate_answer works on: the stripped content of the first chunk
\* with content
GenText == Strip(gen.chunks[GenFirst].content)

\* its first line, stripped
GenLine == Strip(BeforeFirst(GenText, "\n"))

\* the candidate: the first line, cut at its first period with the period
\* re-appended when the line has one
GenCandidate ==
    IF \E j \in 1..Len(GenLine) : GenLine[j] = "."
    THEN Strip(BeforeFirst(GenLine, ".")) \o <<".">>
    ELSE GenLine

\* C13: for the selected text, generate_answer returns the candidate (the
\* first line, cut at its first period with the period re-appended) when it
\* has 10 characters or more; otherwise the full stripped text when that has
\* at most 200 characters, else its first 200 characters followed by "...";
\* and the "not found" message when that is still empty.
C13_FirstSentenceOrExcerpt ==
    (gen.pc = "done" /\ GenWithContent # {}) =>
        /\ Len(GenCandidate) >= 10 => gen.result = GenCandidate
        /\ (Len(GenCandidate) < 10 /\ Len(GenText) \in 1..200) => gen.result = GenText
        /\ (Len(GenCandidate) < 10 /\ Len(GenText) > 200) =>
              /\ Len(gen.result) = 203
              /\ SubSeq(gen.result, 1, 200) = SubSeq(GenText, 1, 200)
              /\ SubSeq(gen.result, 201, 203) = <<".", ".", ".">>
        /\ GenText = <<>> =>
              gen.result = <<"No se encuentra informacio'n en la base de datos.">>
        /\ gen.chunks[GenFirst].content = MessiText =>
              gen.result = <<"M", "e", "s", "s", "i", " ", "g", "a", "n", "o'", " ", "e", "l", " ", "B", "a", "l", "o'", "n", " ", "d", "e", " ", "O", "r", "o", ".">>

\* a short first sentence ahead of more than 200 characters: the excerpt
C13_Witness ==
    /\ gen.pc = "done"
    /\ Len(gen.chunks) = 1
    /\ GenWithContent # {}
    /\ GenCandidate = <<"G", "o", "l", ".">>
    /\ Len(GenText) = 205
    /\ Len(gen.result) = 203

RECURSIVE AloneFuncs(_, _, _)
\* the first answer of the matchers from the i-th on, None when none answers
AloneFuncs(nq, d, i) ==
    IF i > Len(FUNCS) THEN None
    ELSE IF Truthy(CallFunc(FUNCS[i], nq, d)) \/ CallFunc(FUNCS[i], nq, d).kind = "raise"
    THEN CallFunc(FUNCS[i], nq, d)
    ELSE AloneFuncs(nq, d, i + 1)

\* how a request for question qn can end when it runs alone over store d with
\* qvec as the question's embedding: the position it ends at and its response
Alone(qn, d, qvec) ==
    LET nq == normalize(qn)
        ended(r) == IF r.kind = "raise" THEN [pc |-> "raised", response |-> NoResponse]
                    ELSE [pc |-> "returned",
                          response |-> [answer |-> r.text, sources |-> <<>>]]
        cs == retrieve_context(qvec, d.document_embeddings, DefaultK, DefaultThreshold)
    IN  IF TopQueries(nq)
        THEN {ended(get_top_entity(nq, d, r)) : r \in TopRows(nq, d)}
        ELSE IF Truthy(get_smalltalk(nq)) THEN {ended(get_smalltalk(nq))}
        ELSE IF AloneFuncs(nq, d, 1) # None THEN {ended(AloneFuncs(nq, d, 1))}
        ELSE IF cs # <<>>
        THEN {[pc |-> "returned",
               response |-> [answer |-> generate_answer(qn, cs), sources |-> Sources(cs)]]}
        ELSE {[pc |-> "returned",
               response |-> [answer |-> <<"No hay datos suficientes en la BBDD.">>,
                             sources |-> <<>>]]}

\* C14: requests are independent.  For a fixed store content and a fixed
\* embedding function, each of two requests interleaved in any order ends as
\* it would alone; the store keeps its content, and the _score annotations a
\* request makes are on rows no other request holds.
C14_RequestsIndependent ==
    conc.pc = "on" =>
        /\ db \in ConcStores
        /\ \A i \in ReqIds :
              LET f == conc.frames[i] IN
              /\ f.pc \in {"returned", "raised"} =>
                    [pc |-> f.pc, response |-> f.response]
                        \in Alone(f.question, db, conc.embed[f.question])
              /\ \A j \in 1..Len(conc.rows[i]) :
                    "_score" \in DOMAIN conc.rows[i][j] =>
                        /\ f.pc \in {"score", "returned"}
                        /\ conc.rows[i][j]._score =
                              cosine_similarity(f.qvec, conc.rows[i][j].embedding.v)

\* two requests with different embeddings have both gone through retrieval
\* over the same corpus and returned different evidence
C14_Witness ==
    /\ conc.pc = "on"
    /\ conc.frames[1].pc = "returned"
    /\ conc.frames[2].pc = "returned"
    /\ conc.frames[1].qvec = <<1, 0>>
    /\ conc.frames[2].qvec = <<0, 1>>
    /\ Len(conc.frames[1].response.sources) = 3
    /\ Len(conc.frames[2].response.sources) = 2

\* C15: retrieve_context skips every row whose embedding is missing, empty
\* or of another length than the query vector: only rows whose embedding is a
\* list of the query vector's length are returned.
C15_OnlySameDimensionReturned ==
    retr.pc = "done" =>
        \A i \in 1..Len(retr.result) :
            /\ retr.result[i].embedding.list
            /\ Len(retr.result[i].embedding.v) = Len(retr.qvec)

\* C16: the vocabulary is ordered most-specific first: of two phrases one of
\* which contains the other, the longer comes earlier in scan order, and a
\* question containing the longer phrase is never routed to the shorter one.
C16_LongerPhraseFirst ==
    top.pc = "done" =>
        \A i, j \in 1..Len(STAT_MAP) :
            (/\ i # j
             /\ Contains(STAT_MAP[i].keyword, STAT_MAP[j].keyword)
             /\ Contains(Lower(top.question), STAT_MAP[i].keyword)) =>
                /\ i < j
                /\ top.entry # j

\* some trigger of entry i is in the normalized question
SmallAny(i) ==
    \E t \in 1..Len(SMALLTALK[i].triggers) : Contains(SmallQ, SMALLTALK[i].triggers[t])

\* every trigger of entry i is in the normalized question
SmallAll(i) ==
    \A t \in 1..Len(SMALLTALK[i].triggers) : Contains(SmallQ, SMALLTALK[i].triggers[t])

\* the result of get_smalltalk when the entries of the set firing fire
SmallExpected(firing) ==
    IF firing = {} THEN None
    ELSE Str(SMALLTALK[CHOOSE i \in firing : \A j \in firing : i <= j].response)

\* C17 as stated: every entry of the dialogue table fires if and only if at
\* least one of its triggers is in the normalized question, so get_smalltalk
\* answers with the first entry one of whose triggers is present.
C17_EveryEntryIsOr ==
    small.pc = "done" =>
        small.result = SmallExpected({i \in 1..Len(SMALLTALK) : SmallAny(i)})

\* C17 amended: the entries of chatbot.py:543 and 546 fire if and only if
\* both of their triggers are in the normalized question; every other entry
\* fires if and only if at least one of its triggers is.
C17_OrButTwoConjunctions ==
    small.pc = "done" =>
        small.result =
            SmallExpected({i \in 1..Len(SMALLTALK) :
                             IF SMALLTALK[i].line \in {543, 546} THEN SmallAll(i)
                             ELSE SmallAny(i)})

\* both triggers of the entry of chatbot.py:543 present, and its response given
C17_Witness ==
    /\ small.pc = "done"
    /\ small.question = <<"f", "a", "n", "t", "a", "s", "y", " ", "c", "l", "a", "s", "i", "c", "o">>
    /\ small.result = Str(<<"En LALIGA Fantasy puedes vivir El Cla'sico con puntuaciones especiales y retos u'nicos.">>)

\* the table whose rows' names a structured matcher compares with the question
NameTable(stage) ==
    CASE stage = "get_competition_info" -> "competitions"
      [] stage = "get_information_team_info" -> "information_team"
      [] stage = "get_player_info" -> "players"
      [] stage = "get_referee_info" -> "referees"
      [] stage = "get_stadium_info" -> "stadiums"
      [] stage = "get_team_by_stadium" -> "stadiums"
      [] stage = "get_team_info" -> "teams"
      [] stage = "get_team_city" -> "teams"
      [] stage = "get_referee_stats_info" -> "referees"
      [] stage = "get_player_stats" -> "players"

\* C18: a structured matcher invoked by chat answers exactly when some row of
\* its table has a name whose normalized form (lower case, diacritics
\* stripped) is a substring of the normalized question; in particular a row
\* whose stored name has diacritics or upper case is matched by a question
\* that mentions it.
C18_MatchOnNormalizedNames ==
    \A i \in 1..Len(trace) :
        (trace[i].stage \in {"get_competition_info", "get_information_team_info",
                             "get_player_info", "get_referee_info", "get_stadium_info",
                             "get_team_by_stadium", "get_team_info"}
         /\ ~trace[i].fault) =>
            (trace[i].outcome = "answer" <=>
                \E k \in 1..Len(db[NameTable(trace[i].stage)]) :
                    Contains(q, normalize(db[NameTable(trace[i].stage)][k].name)))

\* C19: structured matchers are exact-or-none: whenever one returns an answer,
\* the name of an entity stored in the table it looks names up in is, after
\* normalization, a substring of the normalized question.
C19_AnswerNamesStoredEntity ==
    \A i \in 1..Len(trace) :
        (trace[i].stage \in {FUNCS[n] : n \in 1..Len(FUNCS)}
         /\ trace[i].outcome = "answer") =>
            \E k \in 1..Len(db[NameTable(trace[i].stage)]) :
                Contains(q, normalize(db[NameTable(trace[i].stage)][k].name))

\* C20: within one request, a stage issues a query to the store or a call to
\* the embedding model only after every earlier stage has run and returned
\* none; once a stage has answered, no further query or embedding call is
\* issued.
C20_NoCallsAfterAnAnswer ==
    \A j \in 1..Len(trace) :
        trace[j].calls # <<>> =>
            /\ trace[j].stage = StageOrder[j]
            /\ \A i \in 1..(j - 1) :
                  /\ trace[i].stage = StageOrder[i]
                  /\ trace[i].outcome = "none"

\* get_player_stats answers after its queries, the earlier matchers having
\* queried the store and found nothing
C20_Witness ==
    /\ pc = "returned"
    /\ LastStage.stage = "get_player_stats"
    /\ LastStage.calls = <<"stats", "players">>
    /\ \A i \in 3..(Len(trace) - 1) : trace[i].calls # <<>>

\* C21: chat never returns the team-city answer: whenever get_team_city would
\* match a teams row, get_team_info, which runs before it on the same table
\* with a weaker condition, has answered, so that get_team_city is reached only
\* where it gives nothing.
C21_TeamCityNeverAnswers ==
    /\ \A i \in 1..Len(trace) :
          /\ trace[i].stage = "get_team_city" => trace[i].outcome # "answer"
          /\ (trace[i].stage = "get_team_info" /\ ~trace[i].fault
              /\ Truthy(get_team_city(q, db))) => trace[i].outcome = "answer"
    /\ (pc = "returned" /\ Truthy(get_team_city(q, db))) =>
          response.answer # get_team_city(q, db).text

\* a question with "ciudad" and the name of a stored team, answered by
\* get_team_info
C21_Witness ==
    /\ pc = "returned"
    /\ Truthy(get_team_city(q, db))
    /\ LastStage.stage = "get_team_info"
    /\ get_team_city(q, db).text = <<"El ">> \o Betis \o <<" esta' en la ciudad de ">>
                                       \o <<"Sevilla">> \o <<".">>

\* the response in hand is a statistics answer under the placeholder name: the
\* question has "desconocido" in it and a row of the statistics table
\* references an id that the table of names has no row for
UnderPlaceholder(statsTable, idColumn, namesTable) ==
    /\ Contains(q, Desconocido)
    /\ SubSeq(response.answer, 1, 12) = <<"Estadi'sticas de ">> \o Desconocido
    /\ \E k \in 1..Len(db[statsTable]) :
          Eq(db[namesTable], "id", db[statsTable][k][idColumn]) = <<>>

\* a row of the statistics table references a stored entity whose lowercased
\* name is in the question
NamesStoredEntity(statsTable, idColumn, namesTable) ==
    \E k \in 1..Len(db[statsTable]), n \in 1..Len(db[namesTable]) :
        /\ db[namesTable][n].id = db[statsTable][k][idColumn]
        /\ Contains(q, Lower(db[namesTable][n].name))

\* C22: chat returns a player-statistics or referee-statistics answer only
\* under the placeholder name "desconocido"; whenever a statistics row
\* references a stored player or referee whose lowercased name is in the
\* question, get_player_info or get_referee_info, earlier in the chain, answers.
C22_StatsOnlyUnderPlaceholder ==
    /\ (pc = "returned" /\ LastStage.stage = "get_player_stats") =>
          UnderPlaceholder("stats", "player_id", "players")
    /\ (pc = "returned" /\ LastStage.stage = "get_referee_stats_info") =>
          UnderPlaceholder("referee_stats", "referee_id", "referees")
    /\ \A i \in 1..Len(trace) :
          /\ (trace[i].stage = "get_player_info" /\ ~trace[i].fault
              /\ NamesStoredEntity("stats", "player_id", "players")) =>
                 trace[i].outcome = "answer"
          /\ (trace[i].stage = "get_referee_info" /\ ~trace[i].fault
              /\ NamesStoredEntity("referee_stats", "referee_id", "referees")) =>
                 trace[i].outcome = "answer"

\* a referee named in the question has statistics, and get_referee_info
\* answers before get_referee_stats_info is tried
C22_Witness ==
    /\ pc = "returned"
    /\ NamesStoredEntity("referee_stats", "referee_id", "referees")
    /\ Truthy(get_referee_stats_info(q, db))
    /\ LastStage.stage = "get_referee_info"

\* the text has a letter with a diacritic, precomposed or as a combining mark
HasDiacritic(s) ==
    \E i \in 1..Len(s) : DecomposeChar(s[i]) # <<s[i]>> \/ IsMn(s[i])

\* the entry of STAT_MAP that get_top_entity matches for the request in
\* flight (0: none)
Matched == FirstKeyword(Lower(q))

\* C23: chat hands get_top_entity the question without its diacritics, and
\* get_top_entity compares it with the vocabulary keys as written, so the
\* phrase matched for a request never has a diacritic; every phrase of the
\* referee_stats table has one, so the superlative resolver never queries
\* referee_stats for a request.
C23_NoDiacriticPhraseMatched ==
    /\ \A k \in 1..Len(STAT_MAP) :
          STAT_MAP[k].table = "referee_stats" => HasDiacritic(STAT_MAP[k].keyword)
    /\ \A i \in 1..Len(trace) :
          trace[i].stage = "get_top_entity" =>
             /\ Matched # 0 => /\ ~HasDiacritic(STAT_MAP[Matched].keyword)
                               /\ STAT_MAP[Matched].table # "referee_stats"
             /\ \A c \in 1..Len(trace[i].calls) : trace[i].calls[c] # "referee_stats"

\* the question, lowercased, holds the phrase "victorias a'rbitro" of the
\* referee_stats table; the resolver has run on it and matched nothing
C23_Witness ==
    /\ Len(trace) >= 1
    /\ trace[1].stage = "get_top_entity"
    /\ trace[1].outcome = "none"
    /\ FirstKeyword(Lower(question)) # 0
    /\ STAT_MAP[FirstKeyword(Lower(question))].table = "referee_stats"
    /\ db.referee_stats # <<>>

====
